---- MODULE Spec2Model ----
(***************************************************************************)
(* A model of chartpress (src/chartpress.py): the derivation of image tags *)
(* and chart versions from git history, the validation of a configured     *)
(* baseVersion, and the normalisation of chart versions.                   *)
(*                                                                         *)
(* Strings are TLA+ strings; a character is a string of length one and     *)
(* SubSeq, Len, Head, Tail and \o act on strings as they do on sequences.  *)
(* The alphabet is printable ASCII without line breaks.                    *)
(***************************************************************************)
EXTENDS Integers, Sequences, FiniteSets, TLC

VARIABLES
    \* --- the git repository (one linear branch) and the process's caches
    commits,      \* sequence of commits, oldest first: [files, tag]
    cache_count,  \* lru_cache of _count_commits: ref -> count
    cache_tag,    \* lru_cache of _get_latest_tag_and_count: key -> <<tag, n>>
    cache_latest, \* lru_cache of _get_latest_commit_tagged_or_modifying_paths
    last,         \* the last build_chart / build_images call and its outcome
    \* --- calls of the pure helpers
    parts_in,     \* arguments of _get_identifier_from_parts
    parts_out,    \* its result, and the result of _trim_version_suffix on it
    base_in,      \* arguments of _check_base_version and git's mocked answer
    base_out,     \* its outcome
    fix,          \* a version given to _fix_chart_version, and the outcomes
    \* --- the files and commands of a chart
    patch,        \* values.yaml and the calls of the values-file patcher
    run,          \* one run of main over a chart
    pub,          \* one call of publish_pages
    build         \* one call of build_images and the commands it issued

gitvars == <<commits, cache_count, cache_tag, cache_latest, last>>
partsvars == <<parts_in, parts_out>>
basevars == <<base_in, base_out>>
filevars == <<patch, run, pub, fix, build>>
vars == <<commits, cache_count, cache_tag, cache_latest, last,
          parts_in, parts_out, base_in, base_out, patch, run, pub, fix, build>>

----------------------------------------------------------------------------
(* Characters and strings *)

NONE == "<None>"   \* Python's None, where a string is optional

DIGITS == "0123456789"
LOWER == "abcdefghijklmnopqrstuvwxyz"
UPPER == "ABCDEFGHIJKLMNOPQRSTUVWXYZ"

CharAt(s, i) == SubSeq(s, i, i)
CharsOf(s) == {CharAt(s, i) : i \in 1..Len(s)}

Digit == CharsOf(DIGITS)
Letter == CharsOf(LOWER) \cup CharsOf(UPPER)
LowerHex == CharsOf("abcdef") \cup Digit

AllIn(s, set) == \A i \in 1..Len(s) : CharAt(s, i) \in set

\* str.find: the first index of character c in s at or after i, 0 when absent
RECURSIVE FindFrom(_, _, _)
FindFrom(s, c, i) ==
    IF i > Len(s) THEN 0
    ELSE IF CharAt(s, i) = c THEN i
    ELSE FindFrom(s, c, i + 1)

IndexOf(s, c) == FindFrom(s, c, 1)

\* the `in` operator for a single character
Contains(s, c) == IndexOf(s, c) # 0

\* the `in` operator for a substring
HasSubstring(s, sub) ==
    \E i \in 1..(Len(s) - Len(sub) + 1) : SubSeq(s, i, i + Len(sub) - 1) = sub

StartsWith(s, p) == Len(s) >= Len(p) /\ SubSeq(s, 1, Len(p)) = p

\* str.split(c): the fields of s between occurrences of c
RECURSIVE SplitOn(_, _)
SplitOn(s, c) ==
    LET i == IndexOf(s, c)
    IN  IF i = 0 THEN <<s>>
        ELSE <<SubSeq(s, 1, i - 1)>> \o SplitOn(SubSeq(s, i + 1, Len(s)), c)

\* str.lstrip(c)
RECURSIVE LStrip(_, _)
LStrip(s, c) ==
    IF Len(s) > 0 /\ Head(s) = c THEN LStrip(Tail(s), c) ELSE s

\* str(n) for n >= 0
RECURSIVE IntToStr(_)
IntToStr(n) ==
    IF n < 10 THEN CharAt(DIGITS, n + 1)
    ELSE IntToStr(n \div 10) \o CharAt(DIGITS, (n % 10) + 1)

\* int(s) for a string of decimal digits
RECURSIVE StrToInt(_)
StrToInt(s) ==
    IF Len(s) = 0 THEN 0
    ELSE 10 * StrToInt(SubSeq(s, 1, Len(s) - 1))
         + (IndexOf(DIGITS, CharAt(s, Len(s))) - 1)

----------------------------------------------------------------------------
(* Outcomes: a returned value or a raised exception *)

Return(v) == [exc |-> "none", val |-> v]
Raise(kind, message) == [exc |-> kind, val |-> message]
Returned(r) == r.exc = "none"

----------------------------------------------------------------------------
(* The _semver2 regular expression *)

\* 0|[1-9]\d*
NumericIdentifier(s) ==
    /\ Len(s) > 0
    /\ AllIn(s, Digit)
    /\ (Len(s) > 1 => Head(s) # "0")

\* [0-9a-zA-Z-]
IdentifierChars == Digit \cup Letter \cup {"-"}

\* \d*[a-zA-Z-][0-9a-zA-Z-]*
AlphanumIdentifier(s) ==
    /\ Len(s) > 0
    /\ AllIn(s, IdentifierChars)
    /\ ~AllIn(s, Digit)

\* [0-9a-zA-Z-]+
BuildIdentifier(s) ==
    /\ Len(s) > 0
    /\ AllIn(s, IdentifierChars)

\* The groups of _semver2.fullmatch(s): the build metadata starts at the
\* first '+', the prerelease at the first '-' before it; a group that did
\* not take part in the match is NONE.
Semver2Groups(s) ==
    LET plus == IndexOf(s, "+")
        front == IF plus = 0 THEN s ELSE SubSeq(s, 1, plus - 1)
        dash == IndexOf(front, "-")
        core == IF dash = 0 THEN front ELSE SubSeq(front, 1, dash - 1)
        nums == SplitOn(core, ".")
    IN  [core |-> nums,
         prerelease |-> IF dash = 0 THEN NONE
                        ELSE SubSeq(front, dash + 1, Len(front)),
         buildmetadata |-> IF plus = 0 THEN NONE
                           ELSE SubSeq(s, plus + 1, Len(s))]

\* every dot-separated field of the text satisfies the identifier predicate
PrereleaseFields(fields) ==
    \A i \in 1..Len(fields) :
        NumericIdentifier(fields[i]) \/ AlphanumIdentifier(fields[i])

BuildFields(fields) ==
    \A i \in 1..Len(fields) : BuildIdentifier(fields[i])

Semver2GroupsMatch(g) ==
    /\ Len(g.core) = 3
    /\ \A i \in 1..3 : NumericIdentifier(g.core[i])
    /\ g.prerelease # NONE => PrereleaseFields(SplitOn(g.prerelease, "."))
    /\ g.buildmetadata # NONE => BuildFields(SplitOn(g.buildmetadata, "."))

\* _semver2.fullmatch(s) is not None
Semver2Match(s) == Semver2GroupsMatch(Semver2Groups(s))

\* _version_number(groups): the comparable (major, minor, patch)
VersionNumber(s) ==
    LET g == Semver2Groups(s)
    IN  <<StrToInt(g.core[1]), StrToInt(g.core[2]), StrToInt(g.core[3])>>

\* Python's tuple comparison a < b on triples
TripleLess(a, b) ==
    \/ a[1] < b[1]
    \/ a[1] = b[1] /\ a[2] < b[2]
    \/ a[1] = b[1] /\ a[2] = b[2] /\ a[3] < b[3]

----------------------------------------------------------------------------
(* _fix_chart_version *)

FixMessage(version) ==
    "The version in Chart.yaml '" \o version
        \o "' doesn't follow semantic versioning. Helm 3 requires published charts to have strict semantic versions."

\* a plausible slip: the leading 'v' goes without a look at the rest
FixStrippingUnchecked(version, strict) ==
    IF Semver2Match(version) THEN Return(version)
    ELSE IF StartsWith(version, "v") THEN Return(Tail(version))
    ELSE IF strict THEN Raise("ValueError", FixMessage(version))
    ELSE Return(version)

\* a plausible slip: every leading 'v' is stripped, as lstrip("v") does
FixStrippingEveryV(version, strict) ==
    IF Semver2Match(version) THEN Return(version)
    ELSE IF StartsWith(version, "v") /\ Semver2Match(LStrip(version, "v"))
         THEN Return(LStrip(version, "v"))
    ELSE IF strict THEN Raise("ValueError", FixMessage(version))
    ELSE Return(version)

_fix_chart_version(version, strict) ==
    IF Semver2Match(version) THEN Return(version)
    ELSE IF StartsWith(version, "v") /\ Semver2Match(Tail(version))
         THEN Return(Tail(version))
    ELSE IF strict THEN Raise("ValueError", FixMessage(version))
    ELSE Return(version)

----------------------------------------------------------------------------
(* _get_identifier_from_parts and _trim_version_suffix *)

GIT_PREFIX == "git"
PRERELEASE_PREFIX == "0.dev." \o GIT_PREFIX

\* a plausible slip: the suffix is added only when n_commits > 0
PartsIgnoringLong(tag, n_commits, commit, long) ==
    IF n_commits > 0
    THEN tag \o (IF Contains(tag, "-") THEN "." \o GIT_PREFIX
                 ELSE "-" \o PRERELEASE_PREFIX)
             \o "." \o IntToStr(n_commits) \o ".h" \o commit
    ELSE tag

_get_identifier_from_parts(tag, n_commits, commit, long) ==
    IF n_commits > 0 \/ long
    THEN LET pre == IF Contains(tag, "-")
                    THEN "." \o GIT_PREFIX
                    ELSE "-" \o PRERELEASE_PREFIX
         IN  tag \o pre \o "." \o IntToStr(n_commits) \o ".h" \o commit
    ELSE tag

\* the text after position k of version matches \.git\.\d+\.h[a-f0-9]+$
SuffixMatchesAfter(version, k) ==
    LET rest == SubSeq(version, k + 1, Len(version))
        head == "." \o GIT_PREFIX \o "."
        f == SplitOn(SubSeq(rest, Len(head) + 1, Len(rest)), ".")
    IN  /\ StartsWith(rest, head)
        /\ Len(f) = 2
        /\ Len(f[1]) > 0 /\ AllIn(f[1], Digit)
        /\ Len(f[2]) > 1 /\ Head(f[2]) = "h" /\ AllIn(Tail(f[2]), LowerHex)

\* a plausible slip: the default prerelease is trimmed with the suffix
TrimToRelease(version) ==
    LET ks == {k \in 0..Len(version) : SuffixMatchesAfter(version, k)}
        k == CHOOSE x \in ks : \A y \in ks : y <= x
        stem == SubSeq(version, 1, k)
        tail == "-0.dev"
    IN  IF ks = {} THEN version
        ELSE IF Len(stem) >= Len(tail)
                /\ SubSeq(stem, Len(stem) - Len(tail) + 1, Len(stem)) = tail
             THEN SubSeq(stem, 1, Len(stem) - Len(tail))
             ELSE stem

\* _suffix_version_pat.match: group 1 is greedy, so it ends at the last
\* position after which the suffix matches
_trim_version_suffix(version) ==
    LET ks == {k \in 0..Len(version) : SuffixMatchesAfter(version, k)}
    IN  IF ks = {} THEN version
        ELSE SubSeq(version, 1, CHOOSE k \in ks : \A j \in ks : j <= k)

----------------------------------------------------------------------------
(* _check_base_version *)

DEFAULT_PRERELEASE == "-0.dev"
DEFAULT_BASE == "0.0.1-0.dev"

InvalidBaseMessage(base_version) ==
    "baseVersion: " \o base_version
        \o " must be a valid semver version (e.g. 1.2.3-0.dev), but doesn't appear to be valid."

SortErrorMessage(base_version, tag) ==
    "baseVersion " \o base_version \o " is not greater than latest tag " \o tag
        \o ". Please update baseVersion config in chartpress.yaml."

\* a plausible slip: the ordering is checked on a tagged commit as well
CheckOrderOnTagToo(base_version, tag, count) ==
    LET base == IF Contains(base_version, "-") THEN base_version
                ELSE base_version \o DEFAULT_PRERELEASE
        stripped == LStrip(tag, "v")
    IN  IF ~Semver2Match(base)
        THEN Raise("ValueError", InvalidBaseMessage(base))
        ELSE IF tag # NONE /\ tag # "" /\ Semver2Match(stripped)
                /\ (\/ TripleLess(VersionNumber(base), VersionNumber(stripped))
                    \/ /\ VersionNumber(base) = VersionNumber(stripped)
                       /\ Semver2Groups(stripped).prerelease = NONE)
        THEN Raise("ValueError", SortErrorMessage(base, tag))
        ELSE Return(base)

\* a plausible slip: a stable baseVersion is not given the default prerelease
CheckWithoutDefaultPrerelease(base_version, tag, count) ==
    IF ~Semver2Match(base_version)
    THEN Raise("ValueError", InvalidBaseMessage(base_version))
    ELSE IF tag # NONE /\ tag # "" /\ count # 0 /\ Semver2Match(LStrip(tag, "v"))
            /\ (\/ TripleLess(VersionNumber(base_version),
                              VersionNumber(LStrip(tag, "v")))
                \/ /\ VersionNumber(base_version) = VersionNumber(LStrip(tag, "v"))
                   /\ Semver2Groups(LStrip(tag, "v")).prerelease = NONE)
    THEN Raise("ValueError", SortErrorMessage(base_version, tag))
    ELSE Return(base_version)

\* a plausible slip: exactly on a tag nothing is checked, the syntax neither
CheckNothingOnTag(base_version, tag, count) ==
    IF tag # NONE /\ tag # "" /\ count = 0
    THEN Return(IF Contains(base_version, "-") THEN base_version
                ELSE base_version \o DEFAULT_PRERELEASE)
    ELSE CheckOrderOnTagToo(base_version, tag, count)

\* a plausible slip: a tag that is not SemVer2 is refused, not ignored
CheckRefusingOtherTags(base_version, tag, count) ==
    IF tag # NONE /\ tag # "" /\ count # 0 /\ ~Semver2Match(LStrip(tag, "v"))
       /\ Semver2Match(IF Contains(base_version, "-") THEN base_version
                       ELSE base_version \o DEFAULT_PRERELEASE)
    THEN Raise("ValueError",
               SortErrorMessage(IF Contains(base_version, "-") THEN base_version
                                ELSE base_version \o DEFAULT_PRERELEASE, tag))
    ELSE IF count = 0
    THEN CheckNothingOnTag(base_version, NONE, count)
    ELSE CheckOrderOnTagToo(base_version, tag, count)

\* (tag, count) is what _get_latest_tag_and_count() answers for HEAD
_check_base_version(base_version, tag, count) ==
    LET base == IF ~Contains(base_version, "-")
                THEN base_version \o DEFAULT_PRERELEASE
                ELSE base_version
    IN  IF ~Semver2Match(base)
        THEN Raise("ValueError", InvalidBaseMessage(base))
        ELSE IF tag # NONE /\ tag # "" /\ count # 0
        THEN LET stripped == LStrip(tag, "v")
             IN  IF Semver2Match(stripped)
                 THEN IF TripleLess(VersionNumber(base), VersionNumber(stripped))
                      THEN Raise("ValueError", SortErrorMessage(base, tag))
                      ELSE IF VersionNumber(base) = VersionNumber(stripped)
                      THEN IF Semver2Groups(stripped).prerelease # NONE
                           THEN Return(base)
                           ELSE Raise("ValueError", SortErrorMessage(base, tag))
                      ELSE Return(base)
                 ELSE Return(base)   \* tag not semver: logged and ignored
        ELSE Return(base)

----------------------------------------------------------------------------
(* _check_or_get_base_version: the validator with the shorthand tokens.    *)
(* tests/test_helpers.py calls it; chartpress.py does not hold it, so it   *)
(* is written from the specification's section 4.2 and the cases the test  *)
(* pins: no tag gives the default base, a prerelease tag is its own base.  *)

ShorthandTokens == {"major", "minor", "patch"}

ShorthandMessage(base_version, tag) ==
    "baseVersion: " \o base_version \o " not valid when latest tag " \o tag
        \o " is not semver"

\* the triple with the named component incremented and the lower ones zeroed
Incremented(token, triple) ==
    IF token = "major" THEN <<triple[1] + 1, 0, 0>>
    ELSE IF token = "minor" THEN <<triple[1], triple[2] + 1, 0>>
    ELSE <<triple[1], triple[2], triple[3] + 1>>

TripleToStr(triple) ==
    IntToStr(triple[1]) \o "." \o IntToStr(triple[2]) \o "." \o IntToStr(triple[3])

_check_or_get_base_version(base_version, tag, count) ==
    IF base_version \notin ShorthandTokens
    THEN _check_base_version(base_version, tag, count)
    ELSE IF tag = NONE THEN Return(DEFAULT_BASE)
    ELSE IF ~Semver2Match(tag)
    THEN Raise("ValueError", ShorthandMessage(base_version, tag))
    ELSE IF Semver2Groups(tag).prerelease # NONE
    THEN _check_base_version(tag, tag, count)
    ELSE _check_base_version(
             TripleToStr(Incremented(base_version, VersionNumber(tag))),
             tag, count)

----------------------------------------------------------------------------
(* Calls of the pure helpers on bounded inputs *)

MaxNCommits == 12    \* n_commits ranges over 0..MaxNCommits
MaxSinceTag == 2     \* commits-since-tag ranges over 0..MaxSinceTag

PartsTags ==
    {"0.1.2", "0.1.2-alpha.1", "v1.0.0", "1.0.0+b", "my-tag", "x.y.z",
     "1.0.0-0.dev", "0.1.2-0.dev.git.3.habc", "0.0.1-set.by.chartpress"}

PartsCommits == {"asdf123", "abc1234", "0123456", "ABC1234"}

BaseVersions ==
    {"1.2.4-0.dev", "1.2.3-0.dev", "1.2.2-0.dev", "1.2.4", "1.2.3", "x.y.z",
     "2.0.0-beta.1", "1.2.4+b", "1.2.4+b-1", "1.2.4-0.dev+b", "v1.2.4",
     "1.2.04", "1.2", "1.3.0-", "0.0.1-0.dev", "major", "minor", "patch"}

BaseTags ==
    {NONE, "1.2.3", "1.2.3-alpha.1", "2.0.0", "1.2.4-alpha.1", "x.y.z",
     "v1.2.3", "vv1.2.4", "1.2.3+b", "0.1.0", "my-tag", "v1.2.3-rc.1"}

GitIdle ==
    /\ commits = <<>>
    /\ cache_count = <<>> /\ cache_tag = <<>> /\ cache_latest = <<>>
    /\ last = [op |-> "none", current |-> FALSE]

PartsIdle ==
    /\ parts_in = [tag |-> NONE, n_commits |-> 0, commit |-> NONE, long |-> FALSE]
    /\ parts_out = [ident |-> NONE, trimmed |-> NONE]

BaseIdle ==
    /\ base_in = [base_version |-> NONE, tag |-> NONE, count |-> 0]
    /\ base_out = [called |-> FALSE, fn |-> NONE, result |-> Return(NONE)]

PatchIdle == patch = [calls |-> 0]
MainIdle == run = [pc |-> "idle"]
PubIdle == pub = [pc |-> "idle"]
FixIdle == fix = [calls |-> 0]
BuildIdle == build = [pc |-> "idle"]
FilesIdle == PatchIdle /\ MainIdle /\ PubIdle /\ FixIdle /\ BuildIdle

InitParts ==
    /\ parts_in \in [tag : PartsTags, n_commits : 0..MaxNCommits,
                     commit : PartsCommits, long : BOOLEAN]
    /\ parts_out = [ident |-> NONE, trimmed |-> NONE]
    /\ GitIdle /\ BaseIdle /\ FilesIdle

CallIdentifierFromParts ==
    /\ parts_in.tag # NONE
    /\ parts_out.ident = NONE
    /\ parts_out' = [parts_out EXCEPT !.ident =
            _get_identifier_from_parts(parts_in.tag, parts_in.n_commits,
                                       parts_in.commit, parts_in.long)]
    /\ UNCHANGED <<parts_in, gitvars, basevars, filevars>>

CallTrimVersionSuffix ==
    /\ parts_out.ident # NONE
    /\ parts_out.trimmed = NONE
    /\ parts_out' = [parts_out EXCEPT !.trimmed = _trim_version_suffix(parts_out.ident)]
    /\ UNCHANGED <<parts_in, gitvars, basevars, filevars>>

NextParts == CallIdentifierFromParts \/ CallTrimVersionSuffix

SpecParts == InitParts /\ [][NextParts]_vars

InitBase ==
    /\ base_in \in [base_version : BaseVersions, tag : BaseTags,
                    count : 0..MaxSinceTag]
    /\ base_out = [called |-> FALSE, fn |-> NONE, result |-> Return(NONE)]
    /\ GitIdle /\ PartsIdle /\ FilesIdle

CallCheckBaseVersion ==
    /\ base_in.base_version # NONE
    /\ ~base_out.called
    /\ base_out' = [called |-> TRUE, fn |-> "_check_base_version",
                    result |-> _check_base_version(base_in.base_version,
                                                   base_in.tag, base_in.count)]
    /\ UNCHANGED <<base_in, gitvars, partsvars, filevars>>

CallCheckOrGetBaseVersion ==
    /\ base_in.base_version # NONE
    /\ ~base_out.called
    /\ base_out' = [called |-> TRUE, fn |-> "_check_or_get_base_version",
                    result |-> _check_or_get_base_version(
                                   base_in.base_version, base_in.tag, base_in.count)]
    /\ UNCHANGED <<base_in, gitvars, partsvars, filevars>>

NextBase == CallCheckBaseVersion \/ CallCheckOrGetBaseVersion

SpecBase == InitBase /\ [][NextBase]_vars

----------------------------------------------------------------------------
(* The git repository: one linear branch, HEAD at its last commit.  Commit *)
(* i of the sequence has i commits up to and including itself.  The first  *)
(* commit adds every file, chartpress.yaml included.                       *)

MaxCommits == 2      \* the branch grows to at most MaxCommits commits

Files == {"chartpress.yaml", "testchart/values.yaml", "image/Dockerfile", "README.md"}
LaterFiles == {"testchart/values.yaml", "image/Dockerfile", "README.md"}
TagNames == {"1.0.0", "x.y.z"}

HEX == "0123456789abcdef"

\* the abbreviated hash git prints for commit i (%h, --abbrev-commit)
HashOf(i) ==
    CharAt(HEX, ((i - 1) % 16) + 1) \o CharAt(HEX, ((i * 3) % 16) + 1)
        \o CharAt(HEX, ((i * 5) % 16) + 1)

\* the commit a ref names
Resolve(ref) ==
    IF ref = "HEAD" THEN Len(commits)
    ELSE CHOOSE i \in 1..Len(commits) : HashOf(i) = ref

\* a pathspec matches a file it names or a directory above it
PathMatches(path, file) == file = path \/ StartsWith(file, path \o "/")

Touches(i, paths) ==
    \E f \in commits[i].files : \E p \in paths : PathMatches(p, f)

Latest(set) == CHOOSE i \in set : \A j \in set : j <= i

\* git log --max-count=1 --pretty=format:%h -- <paths>
GitLogLatest(paths) ==
    LET hits == {i \in 1..Len(commits) : Touches(i, paths)}
    IN  IF hits = {} THEN "" ELSE HashOf(Latest(hits))

\* git rev-list --count <ref>
GitRevListCount(ref) == Resolve(ref)

TaggedUpTo(i) == {j \in 1..i : commits[j].tag # NONE}

\* git describe --tags --long <ref>: NONE when the command fails
GitDescribe(ref) ==
    LET i == Resolve(ref)
    IN  IF TaggedUpTo(i) = {} THEN NONE
        ELSE LET j == Latest(TaggedUpTo(i))
             IN  commits[j].tag \o "-" \o IntToStr(i - j) \o "-g" \o HashOf(i)

\* git rev-list --abbrev-commit -n 1 <tag>
GitRevListTag(tag) ==
    HashOf(CHOOSE i \in 1..Len(commits) : commits[i].tag = tag)

\* git merge-base --is-ancestor <a> <b> succeeds
GitIsAncestor(a, b) == b # "" /\ Resolve(a) <= Resolve(b)

LastIndexOf(s, c) ==
    IF Contains(s, c)
    THEN Latest({i \in 1..Len(s) : CharAt(s, i) = c})
    ELSE 0

\* str.rsplit("-", maxsplit=2) of git describe's output
RSplit2(s) ==
    LET k2 == LastIndexOf(s, "-")
        front == SubSeq(s, 1, k2 - 1)
        k1 == LastIndexOf(front, "-")
    IN  <<SubSeq(front, 1, k1 - 1), SubSeq(front, k1 + 1, Len(front)),
          SubSeq(s, k2 + 1, Len(s))>>

----------------------------------------------------------------------------
(* The memoized git queries.  A cache is a function from the call's        *)
(* arguments to its result; each query takes the caches c and returns its  *)
(* value with the caches as the call leaves them.                          *)

EmptyCache == [k \in {} |-> NONE]
EmptyCaches == [count |-> EmptyCache, tag |-> EmptyCache, latest |-> EmptyCache]
Caches == [count |-> cache_count, tag |-> cache_tag, latest |-> cache_latest]

Extend(f, k, v) == [x \in DOMAIN f \cup {k} |-> IF x = k THEN v ELSE f[x]]

\* the keys lru_cache makes of the three ways the code calls
\* _get_latest_tag_and_count: (), (echo=False) and (ref)
KeyNoArgs == "()"
KeyEcho == "(echo=False)"

\* what a memoized call returns: its value, and the caches as it leaves them
Hit(c, v) == [val |-> v, c |-> c]
StoreCount(c, ref, n) == [val |-> n, c |-> [c EXCEPT !.count = Extend(c.count, ref, n)]]
StoreTag(c, key, v) == [val |-> v, c |-> [c EXCEPT !.tag = Extend(c.tag, key, v)]]
StoreLatest(c, paths, v) ==
    [val |-> v, c |-> [c EXCEPT !.latest = Extend(c.latest, paths, v)]]

\* a plausible slip: the commits of HEAD are counted, whatever the ref
CountCommitsOfHead(c, ref) ==
    IF ref \in DOMAIN c.count
    THEN Hit(c, c.count[ref])
    ELSE StoreCount(c, ref, GitRevListCount("HEAD"))

_count_commits(c, ref) ==
    IF ref \in DOMAIN c.count
    THEN Hit(c, c.count[ref])
    ELSE StoreCount(c, ref, GitRevListCount(ref))

\* latest_tag_in_branch, int(n_commits_since_tag) of the split output
DescribedTagAndCount(fields) == <<fields[1], StrToInt(fields[2])>>

\* the except branch: no tag found, count all commits
NoTagAndCount(counted, key) == StoreTag(counted.c, key, <<NONE, counted.val>>)

TagAndCountOf(c, key, ref, git_describe) ==
    IF git_describe # NONE
    THEN StoreTag(c, key, DescribedTagAndCount(RSplit2(git_describe)))
    ELSE NoTagAndCount(_count_commits(c, ref), key)

_get_latest_tag_and_count(c, key, ref) ==
    IF key \in DOMAIN c.tag
    THEN Hit(c, c.tag[key])
    ELSE TagAndCountOf(c, key, ref, GitDescribe(ref))

\* the later of the tagged commit and the commit modifying the paths
LaterCommit(latest_commit_tagged, latest_commit_modifying_path) ==
    IF GitIsAncestor(latest_commit_tagged, latest_commit_modifying_path)
    THEN latest_commit_modifying_path
    ELSE latest_commit_tagged

\* a plausible slip: the commit of the latest tag is taken whenever there
\* is a tag
LatestTaggedWins(latest_commit_modifying_path, latest_tag) ==
    IF latest_tag = NONE \/ latest_tag = ""
    THEN latest_commit_modifying_path
    ELSE GitRevListTag(latest_tag)

LatestTaggedOrModifying(latest_commit_modifying_path, latest_tag) ==
    IF latest_tag = NONE \/ latest_tag = ""
    THEN latest_commit_modifying_path
    ELSE LaterCommit(GitRevListTag(latest_tag), latest_commit_modifying_path)

\* a plausible slip: the cache ignores the paths a call is made with
LatestCommitCachedForAnyPaths(c, paths) ==
    IF DOMAIN c.latest # {}
    THEN Hit(c, c.latest[CHOOSE k \in DOMAIN c.latest : TRUE])
    ELSE StoreLatest(c, paths, GitLogLatest(paths))

\* t is what _get_latest_tag(echo=False) found, with the caches it left
LatestCommitOf(paths, latest_commit_modifying_path, t) ==
    StoreLatest(t.c, paths,
                LatestTaggedOrModifying(latest_commit_modifying_path, t.val[1]))

_get_latest_commit_tagged_or_modifying_paths(c, paths) ==
    IF paths \in DOMAIN c.latest
    THEN Hit(c, c.latest[paths])
    ELSE LatestCommitOf(paths, GitLogLatest(paths),
                        _get_latest_tag_and_count(c, KeyEcho, "HEAD"))

----------------------------------------------------------------------------
(* _get_identifier_from_paths *)

Tagged(latest_tag_in_branch) ==
    latest_tag_in_branch # NONE /\ latest_tag_in_branch # ""

\* a plausible slip: a configured base_version wins even exactly on a tag
BasePrefersConfigured(latest_tag_in_branch, n_commits_since_tag, base_version) ==
    IF base_version # NONE THEN base_version
    ELSE IF Tagged(latest_tag_in_branch) THEN latest_tag_in_branch
    ELSE DEFAULT_BASE

\* the base string: the tag when exactly on it, else the configured
\* base_version, else the tag, else the default
ChosenBase(latest_tag_in_branch, n_commits_since_tag, base_version) ==
    IF Tagged(latest_tag_in_branch) /\ n_commits_since_tag = 0
    THEN latest_tag_in_branch
    ELSE IF base_version # NONE THEN base_version
    ELSE IF Tagged(latest_tag_in_branch) THEN latest_tag_in_branch
    ELSE DEFAULT_BASE

\* a plausible slip: the counter restarts at the latest tag
CountSinceTag(latest_tag_in_branch, n_commits_since_tag, n_commits, long) ==
    IF Tagged(latest_tag_in_branch) THEN n_commits_since_tag ELSE n_commits

\* n_commits, set to 0 when exactly on a tag and not long
ChosenCount(latest_tag_in_branch, n_commits_since_tag, n_commits, long) ==
    IF Tagged(latest_tag_in_branch) /\ n_commits_since_tag = 0 /\ ~long
    THEN 0
    ELSE n_commits

\* a plausible slip: with long, a configured base_version is kept on a tag
IdentifierFromTagUnlessLong(latest_commit, n_commits, tc, long, base_version) ==
    [val |-> _get_identifier_from_parts(
                 IF long /\ base_version # NONE THEN base_version
                 ELSE IF Tagged(tc.val[1]) THEN tc.val[1]
                 ELSE IF base_version # NONE THEN base_version
                 ELSE DEFAULT_BASE,
                 ChosenCount(tc.val[1], tc.val[2], n_commits, long),
                 latest_commit, long),
     c |-> tc.c]

IdentifierFromTag(latest_commit, n_commits, tc, long, base_version) ==
    [val |-> _get_identifier_from_parts(
                 ChosenBase(tc.val[1], tc.val[2], base_version),
                 ChosenCount(tc.val[1], tc.val[2], n_commits, long),
                 latest_commit, long),
     c |-> tc.c]

IdentifierFromCount(latest_commit, counted, long, base_version) ==
    IdentifierFromTag(
        latest_commit, counted.val,
        _get_latest_tag_and_count(counted.c, latest_commit, latest_commit),
        long, base_version)

IdentifierFromCommit(lc, long, base_version) ==
    IdentifierFromCount(lc.val, _count_commits(lc.c, lc.val), long, base_version)

_get_identifier_from_paths(c, paths, long, base_version) ==
    IdentifierFromCommit(_get_latest_commit_tagged_or_modifying_paths(c, paths),
                         long, base_version)

----------------------------------------------------------------------------
(* chartpress.yaml: one chart with one image *)

ChartOptions ==
    [name |-> "testchart", imagePrefix |-> "testchart/", paths |-> {},
     images |-> <<"testimage">>]

ImageOptions ==
    [testimage |-> [contextPath |-> "image", dockerfilePath |-> NONE,
                    rebuildOnContextPathChanges |-> TRUE, paths |-> {},
                    imageName |-> NONE, valuesPath |-> {"image", "list.0"}]]

\* os.path.join(a, b)
PathJoin(a, b) == a \o "/" \o b

_get_image_build_context_path(name, options) ==
    IF options.contextPath # NONE /\ options.contextPath # ""
    THEN options.contextPath
    ELSE PathJoin("images", name)

_get_image_dockerfile_path(name, options) ==
    IF options.dockerfilePath # NONE /\ options.dockerfilePath # ""
    THEN options.dockerfilePath
    ELSE PathJoin(_get_image_build_context_path(name, options), "Dockerfile")

_get_all_image_paths(name, options) ==
    {"chartpress.yaml"}
        \cup (IF options.rebuildOnContextPathChanges
              THEN {_get_image_build_context_path(name, options)} ELSE {})
        \cup {_get_image_dockerfile_path(name, options)}
        \cup options.paths

\* a plausible slip: the chart's paths leave the images' paths out
ChartPathsWithoutImages(options) ==
    {"chartpress.yaml", options.name} \cup options.paths

_get_all_chart_paths(options) ==
    {"chartpress.yaml", options.name} \cup options.paths
        \cup UNION {_get_all_image_paths(options.images[i],
                                         ImageOptions[options.images[i]]) :
                        i \in 1..Len(options.images)}

----------------------------------------------------------------------------
(* build_images (its tagging part: the values.yaml modifications it        *)
(* returns) and build_chart                                                *)

NoModifications == [p \in {} |-> NONE]

\* a plausible slip: the forced tag is ignored and every tag is derived
ImageTagAlwaysDerived(c, name, tag, long, base_version) ==
    _get_identifier_from_paths(
        c, _get_all_image_paths(name, ImageOptions[name]), long, base_version)

\* image_tag of one pass of build_images's loop
ImageTag(c, name, tag, long, base_version) ==
    IF tag = NONE
    THEN _get_identifier_from_paths(
             c, _get_all_image_paths(name, ImageOptions[name]), long, base_version)
    ELSE [val |-> tag, c |-> c]

ImageName(name, prefix) ==
    IF ImageOptions[name].imageName # NONE THEN ImageOptions[name].imageName
    ELSE prefix \o name

\* values_file_modifications with the entries of one image set
WithModifications(mods, values_path_list, image_name, image_tag) ==
    [p \in DOMAIN mods \cup values_path_list |->
        IF p \in values_path_list
        THEN [repository |-> image_name, tag |-> image_tag]
        ELSE mods[p]]

RECURSIVE BuildImagesLoop(_, _, _, _, _)
BuildImagesTagged(names, image_tag, mods, prefix, tag, long, base_version) ==
    BuildImagesLoop(
        Tail(names), image_tag.c,
        WithModifications(mods, ImageOptions[Head(names)].valuesPath,
                          ImageName(Head(names), prefix), image_tag.val),
        prefix, [tag |-> tag, long |-> long, base_version |-> base_version])

BuildImagesLoop(names, c, mods, prefix, a) ==
    IF names = <<>> THEN [val |-> mods, c |-> c]
    ELSE BuildImagesTagged(
             names, ImageTag(c, Head(names), a.tag, a.long, a.base_version),
             mods, prefix, a.tag, a.long, a.base_version)

build_images(c, prefix, images, tag, long, base_version) ==
    BuildImagesLoop(images, c, NoModifications, prefix,
                    [tag |-> tag, long |-> long, base_version |-> base_version])

\* the version build_chart decides on, before _fix_chart_version
ChartVersion(c, paths, version, long, base_version) ==
    IF version = NONE
    THEN _get_identifier_from_paths(c, paths, long, base_version)
    ELSE [val |-> version, c |-> c]

----------------------------------------------------------------------------
(* The repository and the runs against it.  The memoized queries assume a  *)
(* repository that does not change under them: the history changes only    *)
(* while the caches are empty, that is between two processes or after the  *)
(* caller has cleared them (tests/conftest.py, cache_clear).               *)

ForcedVersions == {"v2.0.0", "set-by-chartpress"}
RunBaseVersions == {NONE, "2.0.0-0.dev"}

NoCall == [op |-> "none", current |-> FALSE]

\* the history moved on: of the last call, the identifiers it produced for
\* its path set are kept, as those of an earlier history
Outdated(call) ==
    IF ~call.current THEN call
    ELSE IF call.forced # NONE THEN NoCall
    ELSE [op |-> call.op, current |-> FALSE, idents |-> call.idents]

Init ==
    /\ commits = <<[files |-> Files, tag |-> NONE]>>
    /\ cache_count = EmptyCache
    /\ cache_tag = EmptyCache
    /\ cache_latest = EmptyCache
    /\ last = NoCall
    /\ PartsIdle /\ BaseIdle /\ FilesIdle

CachesWarm == Caches # EmptyCaches

GitCommit(f) ==
    /\ ~CachesWarm
    /\ Len(commits) < MaxCommits
    /\ commits' = Append(commits, [files |-> {f}, tag |-> NONE])
    /\ last' = Outdated(last)
    /\ UNCHANGED <<cache_count, cache_tag, cache_latest, partsvars, basevars, filevars>>

GitTag(i, t) ==
    /\ ~CachesWarm
    /\ commits[i].tag = NONE
    /\ \A j \in 1..Len(commits) : commits[j].tag # t
    /\ commits' = [commits EXCEPT ![i].tag = t]
    /\ last' = Outdated(last)
    /\ UNCHANGED <<cache_count, cache_tag, cache_latest, partsvars, basevars, filevars>>

\* conftest.cache_clear, or the start of a new process
CacheClear ==
    /\ CachesWarm
    /\ cache_count' = EmptyCache
    /\ cache_tag' = EmptyCache
    /\ cache_latest' = EmptyCache
    /\ UNCHANGED <<commits, last, partsvars, basevars, filevars>>

BuildChart(version, long, base_version) ==
    LET v == ChartVersion(Caches, _get_all_chart_paths(ChartOptions), version,
                          long, base_version)
    IN  \E strict_version \in BOOLEAN :
            /\ cache_count' = v.c.count
            /\ cache_tag' = v.c.tag
            /\ cache_latest' = v.c.latest
            /\ last' = [op |-> "build_chart", forced |-> version, long |-> long,
                        base_version |-> base_version, current |-> TRUE,
                        idents |-> {v.val},
                        result |-> _fix_chart_version(v.val, strict_version)]
            /\ UNCHANGED <<commits, partsvars, basevars, filevars>>

BuildImages(tag, long, base_version) ==
    LET r == build_images(Caches, ChartOptions.imagePrefix, ChartOptions.images,
                          tag, long, base_version)
    IN  /\ cache_count' = r.c.count
        /\ cache_tag' = r.c.tag
        /\ cache_latest' = r.c.latest
        /\ last' = [op |-> "build_images", forced |-> tag, long |-> long,
                    base_version |-> base_version, current |-> TRUE,
                    idents |-> {r.val[p].tag : p \in DOMAIN r.val},
                    result |-> Return(r.val)]
        /\ UNCHANGED <<commits, partsvars, basevars, filevars>>

Next ==
    \/ \E f \in LaterFiles : GitCommit(f)
    \/ \E i \in 1..Len(commits) : \E t \in TagNames : GitTag(i, t)
    \/ CacheClear
    \/ \E version \in ForcedVersions \cup {NONE} : \E long \in BOOLEAN :
         \E base_version \in RunBaseVersions :
            /\ (version # NONE => ~long)   \* --tag and --long exclude each other
            /\ BuildChart(version, long, base_version)
    \/ \E tag \in ForcedVersions \cup {NONE} : \E long \in BOOLEAN :
         \E base_version \in RunBaseVersions :
            /\ (tag # NONE => ~long)
            /\ BuildImages(tag, long, base_version)

Spec == Init /\ [][Next]_vars

----------------------------------------------------------------------------
(* Ground truth of the history, read off the commits themselves *)

\* the paths a call resolves its commit for
PathsOf(op) ==
    IF op = "build_chart" THEN _get_all_chart_paths(ChartOptions)
    ELSE _get_all_image_paths("testimage", ImageOptions["testimage"])

\* the latest commit that carries a tag or touches one of the paths
ResolvedCommit(paths) ==
    Latest({i \in 1..Len(commits) : commits[i].tag # NONE \/ Touches(i, paths)})

\* a derived identifier's build suffix: .git.<counter>.h<hash>
SuffixFields(id) == SplitOn(id, ".")
HasSuffix(id) ==
    LET f == SuffixFields(id)
    IN  /\ Len(f) >= 4
        /\ f[Len(f) - 2] = GIT_PREFIX
        /\ Len(f[Len(f) - 1]) > 0 /\ AllIn(f[Len(f) - 1], Digit)
        /\ StartsWith(f[Len(f)], "h")
CounterOf(id) == StrToInt(SuffixFields(id)[Len(SuffixFields(id)) - 1])

Derived(call) == call.current /\ call.forced = NONE
Forced(call) == call.current /\ call.forced # NONE

----------------------------------------------------------------------------
(* Claims on _get_identifier_from_parts and _trim_version_suffix           *)
(* (specification SpecParts)                                               *)

PartsCalled == parts_out.ident # NONE
TrimCalled == parts_out.trimmed # NONE

\* id is prefix, the decimal of n, ".h" and the commit
IsSuffixed(id, prefix, n, commit) ==
    LET d == SubSeq(id, Len(prefix) + 1, Len(id) - Len(commit) - 2)
    IN  /\ StartsWith(id, prefix)
        /\ Len(id) > Len(prefix) + Len(commit) + 2
        /\ SubSeq(id, Len(id) - Len(commit) - 1, Len(id)) = ".h" \o commit
        /\ NumericIdentifier(d)
        /\ StrToInt(d) = n

\* C1: _get_identifier_from_parts returns the tag unchanged when n_commits is
\* 0 and long is false; otherwise the tag, ".git." (tag with a '-') or
\* "-0.dev.git." (tag without), n_commits, ".h" and the commit.
C1_IdentifierGrammar ==
    PartsCalled =>
        IF parts_in.n_commits = 0 /\ ~parts_in.long
        THEN parts_out.ident = parts_in.tag
        ELSE IF Contains(parts_in.tag, "-")
        THEN IsSuffixed(parts_out.ident, parts_in.tag \o ".git.",
                        parts_in.n_commits, parts_in.commit)
        ELSE IsSuffixed(parts_out.ident, parts_in.tag \o "-0.dev.git.",
                        parts_in.n_commits, parts_in.commit)

C1_Witness ==
    /\ PartsCalled
    /\ parts_in.n_commits = 0 /\ parts_in.long
    /\ parts_in.tag = "0.1.2"
    /\ parts_out.ident = "0.1.2-0.dev.git.0.h" \o parts_in.commit

IsHexadecimal(s) == Len(s) > 0 /\ AllIn(s, LowerHex \cup CharsOf("ABCDEF"))
IsLowerHexadecimal(s) == Len(s) > 0 /\ AllIn(s, LowerHex)

\* C4 as stated: for n > 0 and a hexadecimal commit, trimming the generated
\* identifier returns the tag exactly, bare release or not.
C4_TrimRecoversTag ==
    (TrimCalled /\ parts_in.n_commits > 0 /\ IsHexadecimal(parts_in.commit))
        => parts_out.trimmed = parts_in.tag

\* C4 amended: for n > 0 and a commit hash in lowercase hexadecimal, trimming
\* the generated identifier returns the tag exactly when the tag contains a
\* '-', and the tag with "-0.dev" appended when it is a bare release.
C4_TrimRecoversBase ==
    (TrimCalled /\ parts_in.n_commits > 0 /\ IsLowerHexadecimal(parts_in.commit))
        => parts_out.trimmed =
              IF Contains(parts_in.tag, "-") THEN parts_in.tag
              ELSE parts_in.tag \o "-0.dev"

C4_Witness ==
    /\ TrimCalled
    /\ parts_in.n_commits > 0
    /\ parts_in.tag = "0.1.2" /\ parts_in.commit = "abc1234"
    /\ parts_out.trimmed = "0.1.2-0.dev"

----------------------------------------------------------------------------
(* Claims on _check_base_version (specification SpecBase)                  *)

BaseCalled == base_out.called /\ base_out.fn = "_check_base_version"
BaseReturned == BaseCalled /\ Returned(base_out.result)

\* the base version as the validator checks it
Normalised(base_version) ==
    IF Contains(base_version, "-") THEN base_version
    ELSE base_version \o "-0.dev"

RaisedNotGreater ==
    /\ BaseCalled
    /\ base_out.result.exc = "ValueError"
    /\ HasSubstring(base_out.result.val, "is not greater than latest tag")
    /\ HasSubstring(base_out.result.val, base_in.base_version)
    /\ HasSubstring(base_out.result.val, base_in.tag)

\* the ordering test of the claim, on the tag as text t
NotGreaterThan(t) ==
    /\ base_in.tag # NONE
    /\ base_in.count > 0
    /\ Semver2Match(t)
    /\ \/ TripleLess(VersionNumber(Normalised(base_in.base_version)),
                     VersionNumber(t))
       \/ /\ VersionNumber(Normalised(base_in.base_version)) = VersionNumber(t)
          /\ Semver2Groups(t).prerelease = NONE

\* C9 as stated: for a valid base version the "is not greater" ValueError is
\* raised exactly when a tag exists, commits-since-tag > 0, the tag parses as
\* SemVer2 and the base's triple is smaller, or equal with no prerelease on
\* the tag; otherwise the base version is returned.
C9_NotGreaterIffTagParses ==
    (BaseCalled /\ Semver2Match(Normalised(base_in.base_version))) =>
        IF NotGreaterThan(base_in.tag)
        THEN RaisedNotGreater
        ELSE base_out.result = Return(Normalised(base_in.base_version))

\* C9 amended: as stated, with the tag parsed after its leading 'v'
\* characters are stripped, and the base version returned with "-0.dev"
\* appended when it contains no '-'.
C9_NotGreaterIffStrippedTagParses ==
    (BaseCalled /\ Semver2Match(Normalised(base_in.base_version))) =>
        IF NotGreaterThan(LStrip(base_in.tag, "v"))
        THEN RaisedNotGreater
        ELSE base_out.result = Return(Normalised(base_in.base_version))

C9_Witness ==
    /\ RaisedNotGreater
    /\ base_in.base_version = "1.2.3-0.dev"
    /\ base_in.tag = "v1.2.3"
    /\ base_in.count > 0

\* C10: every value the validator returns is a SemVer2 version with a
\* non-empty prerelease: the input itself when it has one, the input with
\* "-0.dev" appended when it has none.
C10_ReturnsPrerelease ==
    BaseReturned =>
        /\ Semver2Match(base_out.result.val)
        /\ Semver2Groups(base_out.result.val).prerelease # NONE
        /\ base_out.result.val \in
              {base_in.base_version, base_in.base_version \o "-0.dev"}

----------------------------------------------------------------------------
(* Claims on the identifiers derived from the history (specification Spec) *)

\* C2: exactly on a tag and with long false, the derived identifier is the
\* bare tag, whatever base_version is configured and however many commits
\* there are.
C2_BareTagOnTag ==
    (Derived(last) /\ ~last.long
        /\ commits[ResolvedCommit(PathsOf(last.op))].tag # NONE)
        => last.idents = {commits[ResolvedCommit(PathsOf(last.op))].tag}

C2_Witness ==
    /\ Derived(last) /\ ~last.long
    /\ last.base_version # NONE
    /\ Len(commits) = 2
    /\ commits[2].tag = "1.0.0"
    /\ last.idents = {"1.0.0"}

\* C3: every derived identifier is accepted by _fix_chart_version with
\* strict=True and contains no '+'.
C3_DerivedIsSemver ==
    Derived(last) =>
        \A id \in last.idents :
            /\ Returned(_fix_chart_version(id, TRUE))
            /\ ~Contains(id, "+")

\* C5: a call with a forced identifier computes nothing from git: the caches
\* are left as they were, every image modification carries the forced tag
\* verbatim, and the chart version is the forced version, with at most one
\* leading 'v' stripped.
C5_ForcedStep ==
    (Forced(last') /\ last' # last) =>
        /\ UNCHANGED <<cache_count, cache_tag, cache_latest>>
        /\ last'.op = "build_images" =>
              /\ DOMAIN last'.result.val = ImageOptions["testimage"].valuesPath
              /\ \A p \in DOMAIN last'.result.val :
                    last'.result.val[p].tag = last'.forced
        /\ (last'.op = "build_chart" /\ Returned(last'.result)) =>
              \/ last'.result.val = last'.forced
              \/ "v" \o last'.result.val = last'.forced

C6_DefaultBase ==
    (Derived(last) /\ last.base_version = NONE
        /\ TaggedUpTo(ResolvedCommit(PathsOf(last.op))) = {})
        => last.idents =
              {"0.0.1-0.dev.git."
                  \o IntToStr(ResolvedCommit(PathsOf(last.op)))
                  \o ".h" \o HashOf(ResolvedCommit(PathsOf(last.op)))}

C6_Witness ==
    /\ Derived(last) /\ last.base_version = NONE
    /\ last.op = "build_images"
    /\ Len(commits) = 2
    /\ TaggedUpTo(2) = {}
    /\ last.idents = {"0.0.1-0.dev.git.1.h035"}

\* C7: the counter of a derived identifier is the total number of commits up
\* to the resolved commit, and from one run to the next run for the same
\* paths (the history having only grown, the caches cleared in between) it
\* never decreases, whatever base version either run is given.
C7_CounterStep ==
    (Derived(last') /\ last' # last) =>
        /\ \A id \in last'.idents :
              HasSuffix(id) => CounterOf(id) = ResolvedCommit(PathsOf(last'.op))
        /\ (last.op = last'.op /\ (last.current => last.forced = NONE)) =>
              \A a \in last.idents : \A b \in last'.idents :
                  (HasSuffix(a) /\ HasSuffix(b)) => CounterOf(a) <= CounterOf(b)

C7_CounterMonotonic == [][C7_CounterStep]_vars

C7_Witness ==
    /\ Derived(last)
    /\ last.base_version # NONE
    /\ Len(commits) = 2
    /\ commits[1].tag # NONE /\ commits[2].tag = NONE
    /\ \E id \in last.idents : HasSuffix(id) /\ CounterOf(id) = 2

\* the identifiers the same call produces in a process with empty caches
ColdIdents(op, long, base_version) ==
    IF op = "build_chart"
    THEN {ChartVersion(EmptyCaches, PathsOf(op), NONE, long, base_version).val}
    ELSE LET mods == build_images(EmptyCaches, ChartOptions.imagePrefix,
                                  ChartOptions.images, NONE, long, base_version).val
         IN  {mods[p].tag : p \in DOMAIN mods}

\* C8: on a fixed history a call returns the same identifier whether the
\* caches were empty or already filled by earlier calls of the process.
C8_WarmEqualsCold ==
    Derived(last) =>
        last.idents = ColdIdents(last.op, last.long, last.base_version)

\* a derived build_images call made after a build_chart call of the same
\* process had filled the caches, the two resolving different commits
C8_Witness ==
    /\ Derived(last)
    /\ last.op = "build_images"
    /\ Len(commits) = 2
    /\ commits[2].files = {"testchart/values.yaml"}
    /\ PathsOf("build_chart") \in DOMAIN cache_latest
    /\ cache_latest[PathsOf("build_chart")] # cache_latest[PathsOf("build_images")]

----------------------------------------------------------------------------
(* Claims on the shorthand base versions (specification SpecBase)          *)

ShorthandCalled ==
    /\ base_out.called
    /\ base_out.fn = "_check_or_get_base_version"
    /\ base_in.base_version \in ShorthandTokens

\* the version the claim expects of a token against the tag's triple
ExpectedOfToken(token, tag) ==
    LET v == VersionNumber(tag)
    IN  (IF token = "major" THEN IntToStr(v[1] + 1) \o ".0.0"
         ELSE IF token = "minor"
         THEN IntToStr(v[1]) \o "." \o IntToStr(v[2] + 1) \o ".0"
         ELSE IntToStr(v[1]) \o "." \o IntToStr(v[2]) \o "." \o IntToStr(v[3] + 1))
        \o "-0.dev"

----------------------------------------------------------------------------
(* values.yaml as a tree.  A node carries its runtime type: a mapping (its *)
(* items a function of the keys), a sequence, a string, or another scalar. *)

Mapping(items) == [kind |-> "map", items |-> items]
Sequence(items) == [kind |-> "seq", items |-> items]
Str(s) == [kind |-> "str", val |-> s]
\* an integer scalar, val its digits
Number(n) == [kind |-> "int", val |-> n]
\* a boolean scalar, val as YAML writes it
Boolean(b) == [kind |-> "bool", val |-> b]
Null == [kind |-> "null"]

\* type(mod_obj) as the TypeError prints it
TypeName(node) ==
    IF node.kind = "seq" THEN "<class 'ruamel.yaml.comments.CommentedSeq'>"
    ELSE IF node.kind = "int" THEN "<class 'int'>"
    ELSE IF node.kind = "bool" THEN "<class 'bool'>"
    ELSE IF node.kind = "null" THEN "<class 'NoneType'>"
    ELSE IF node.kind = "map" THEN "<class 'ruamel.yaml.comments.CommentedMap'>"
    ELSE "<class 'str'>"

IMAGE_REPOSITORY_KEYS == {"name", "repository"}

VALUES_FILE == "testchart/values.yaml"

\* p.isdigit()
IsDigit(p) == Len(p) > 0 /\ AllIn(p, Digit)

\* a plausible slip: a segment of digits is still a key of a mapping
SubscriptDigitsAsKey(node, p) ==
    IF node.kind = "map"
    THEN IF p \in DOMAIN node.items
         THEN Return(node.items[p])
         ELSE Raise("KeyError", p)
    ELSE IF node.kind = "seq" /\ IsDigit(p) /\ StrToInt(p) < Len(node.items)
    THEN Return(node.items[StrToInt(p) + 1])
    ELSE IF node.kind = "seq" /\ IsDigit(p)
    THEN Raise("IndexError", "list index out of range")
    ELSE Raise("TypeError", "not subscriptable with this")

\* mod_obj[p], p an int when the segment is all digits; the keys of the
\* mappings here are strings
Subscript(node, p) ==
    IF node.kind = "map"
    THEN IF ~IsDigit(p) /\ p \in DOMAIN node.items
         THEN Return(node.items[p])
         ELSE Raise("KeyError", p)
    ELSE IF node.kind = "seq"
    THEN IF ~IsDigit(p)
         THEN Raise("TypeError", "list indices must be integers or slices, not str")
         ELSE IF StrToInt(p) < Len(node.items)
         THEN Return(node.items[StrToInt(p) + 1])
         ELSE Raise("IndexError", "list index out of range")
    ELSE IF node.kind = "str"
    THEN IF ~IsDigit(p)
         THEN Raise("TypeError", "string indices must be integers")
         ELSE IF StrToInt(p) < Len(node.val)
         THEN Return(Str(CharAt(node.val, StrToInt(p) + 1)))
         ELSE Raise("IndexError", "string index out of range")
    ELSE Raise("TypeError", "object is not subscriptable")

\* the descent of the for loop over path_key.split("."): the node reached
RECURSIVE Descend(_, _)
Descend(node, segments) ==
    IF segments = <<>> THEN Return(node)
    ELSE LET next == Subscript(node, Head(segments))
         IN  IF Returned(next) THEN Descend(next.val, Tail(segments)) ELSE next

\* the document with the node at the segments replaced (the in-place
\* mutation of the node, seen from the root)
RECURSIVE Replaced(_, _, _)
Replaced(node, segments, new) ==
    IF segments = <<>> THEN new
    ELSE IF node.kind = "map"
    THEN Mapping([node.items EXCEPT ![Head(segments)] =
                      Replaced(@, Tail(segments), new)])
    ELSE Sequence([node.items EXCEPT ![StrToInt(Head(segments)) + 1] =
                      Replaced(@, Tail(segments), new)])

Front(s) == SubSeq(s, 1, Len(s) - 1)

----------------------------------------------------------------------------
(* _update_values_file_with_modifications.  A modification is a path_key   *)
(* with its path_value; the modifications dictionary keeps insertion       *)
(* order, so it is a sequence.  The log is the set of lines _log prints.   *)

\* {path_value!r} and {path_value}: a dict of strings as Python prints it
Repr(path_value) ==
    "{'repository': '" \o path_value.repository \o "'"
        \o (IF "tag" \in DOMAIN path_value
            THEN ", 'tag': '" \o path_value.tag \o "'"
            ELSE "")
        \o "}"

UpdatingMessage(field, value) ==
    "Updating " \o VALUES_FILE \o ": " \o field \o ": " \o value

NotUnderstoodMessage(path_value) ==
    "I only understand image updates with 'repository', 'tag', not: "
        \o Repr(path_value)

\* " or ".join of the two keys, in the order the set yields them here
MissingKeyMessage(path_key) ==
    "Could not find name or repository in " \o VALUES_FILE \o ":" \o path_key

ShapeMessage(path_key, mod_obj) ==
    path_key \o " in " \o VALUES_FILE \o " must be a mapping or string, not "
        \o TypeName(mod_obj) \o "."

\* the state of the loop: values in memory, the lines logged, the outcome
Loop(values, log, result) == [values |-> values, log |-> log, result |-> result]

\* a plausible slip: the mapping is rebuilt from the image alone
MappingRebuilt(mod_obj, keys, path_value) ==
    Mapping([k \in keys \cup {"tag"} |->
                IF k \in keys THEN Str(path_value.repository)
                ELSE Str(path_value.tag)])

\* the mapping with every repository key it has and its tag set
MappingUpdated(mod_obj, keys, path_value) ==
    Mapping([k \in DOMAIN mod_obj.items \cup {"tag"} |->
                IF k \in keys THEN Str(path_value.repository)
                ELSE IF k = "tag" THEN Str(path_value.tag)
                ELSE mod_obj.items[k]])

\* a plausible slip: one line for the mapping, when a field of it changes
MappingLogOnce(mod_obj, keys, path_key, path_value) ==
    IF /\ \A k \in keys : mod_obj.items[k] = Str(path_value.repository)
       /\ "tag" \in DOMAIN mod_obj.items
       /\ mod_obj.items["tag"] = Str(path_value.tag)
    THEN {}
    ELSE {UpdatingMessage(path_key, Repr(path_value))}

\* the lines of the two if before != ...: _log(...) of the mapping branch
MappingLog(mod_obj, keys, path_key, path_value) ==
    {UpdatingMessage(path_key \o "." \o k, Repr(path_value)) :
        k \in {x \in keys : mod_obj.items[x] # Str(path_value.repository)}}
    \cup (IF "tag" \in DOMAIN mod_obj.items
             /\ mod_obj.items["tag"] = Str(path_value.tag)
          THEN {}
          ELSE {UpdatingMessage(path_key \o ".tag", Repr(path_value))})

\* a plausible slip: a mapping holding both repository keys is refused
UpdateMappingWithOneKey(s, path_key, segments, mod_obj, path_value) ==
    IF Cardinality(IMAGE_REPOSITORY_KEYS \cap DOMAIN mod_obj.items) # 1
    THEN Loop(s.values, s.log, Raise("KeyError", MissingKeyMessage(path_key)))
    ELSE Loop(Replaced(s.values, segments,
                       MappingUpdated(mod_obj,
                                      IMAGE_REPOSITORY_KEYS \cap DOMAIN mod_obj.items,
                                      path_value)),
              s.log \cup MappingLog(mod_obj,
                                    IMAGE_REPOSITORY_KEYS \cap DOMAIN mod_obj.items,
                                    path_key, path_value),
              Return(NONE))

\* isinstance(mod_obj, MutableMapping)
UpdateMapping(s, path_key, segments, mod_obj, path_value) ==
    IF IMAGE_REPOSITORY_KEYS \cap DOMAIN mod_obj.items = {}
    THEN Loop(s.values, s.log, Raise("KeyError", MissingKeyMessage(path_key)))
    ELSE Loop(Replaced(s.values, segments,
                       MappingUpdated(mod_obj,
                                      IMAGE_REPOSITORY_KEYS \cap DOMAIN mod_obj.items,
                                      path_value)),
              s.log \cup MappingLog(mod_obj,
                                    IMAGE_REPOSITORY_KEYS \cap DOMAIN mod_obj.items,
                                    path_key, path_value),
              Return(NONE))

ImageString(path_value) == path_value.repository \o ":" \o path_value.tag

\* a plausible slip: the line is printed without looking at the old value
StringLogAlways(mod_obj, path_key, image) ==
    {UpdatingMessage(path_key, image)}

StringLog(mod_obj, path_key, image) ==
    IF mod_obj = Str(image) THEN {} ELSE {UpdatingMessage(path_key, image)}

\* a plausible slip: only the tag is written into the string
UpdateStringWithTag(s, path_key, segments, mod_obj, parent, path_value) ==
    Loop(Replaced(s.values, segments, Str(path_value.tag)),
         s.log \cup StringLog(mod_obj, path_key, path_value.tag), Return(NONE))

\* isinstance(mod_obj, str); a string parent takes no item assignment
UpdateString(s, path_key, segments, mod_obj, parent, path_value) ==
    IF parent.kind = "str"
    THEN Loop(s.values,
              s.log \cup StringLog(mod_obj, path_key, ImageString(path_value)),
              Raise("TypeError", "'str' object does not support item assignment"))
    ELSE Loop(Replaced(s.values, segments, Str(ImageString(path_value))),
              s.log \cup StringLog(mod_obj, path_key, ImageString(path_value)),
              Return(NONE))

\* a plausible slip: any scalar is overwritten like a string
UpdateAnyScalar(s, path_key, segments, mod_obj, path_value) ==
    IF mod_obj.kind = "seq"
    THEN Loop(s.values, s.log, Raise("TypeError", ShapeMessage(path_key, mod_obj)))
    ELSE Loop(Replaced(s.values, segments, Str(ImageString(path_value))),
              s.log \cup {UpdatingMessage(path_key, ImageString(path_value))},
              Return(NONE))

\* the else branch: neither a mapping nor a string
RefuseShape(s, path_key, segments, mod_obj, path_value) ==
    Loop(s.values, s.log, Raise("TypeError", ShapeMessage(path_key, mod_obj)))

\* the dispatch on the terminal node's runtime type
UpdateNode(s, path_key, segments, found, path_value) ==
    IF ~Returned(found) THEN Loop(s.values, s.log, found)
    ELSE IF found.val.kind = "map"
    THEN UpdateMapping(s, path_key, segments, found.val, path_value)
    ELSE IF found.val.kind = "str"
    THEN UpdateString(s, path_key, segments, found.val,
                      Descend(s.values, Front(segments)).val, path_value)
    ELSE RefuseShape(s, path_key, segments, found.val, path_value)

\* one pass of the loop over modifications.items()
UpdateOne(s, path_key, path_value) ==
    IF DOMAIN path_value # {"repository", "tag"}
    THEN Loop(s.values, s.log, Raise("ValueError", NotUnderstoodMessage(path_value)))
    ELSE UpdateNode(s, path_key, SplitOn(path_key, "."),
                    Descend(s.values, SplitOn(path_key, ".")), path_value)

\* the loop, stopping at the first exception; steps records each pass
RECURSIVE UpdateLoop(_, _, _)
UpdateLoopNext(modifications, s, steps, after) ==
    IF Returned(after.result)
    THEN UpdateLoop(Tail(modifications), after,
                    Append(steps, [before |-> s.values, after |-> after.values,
                                   logged |-> after.log \ s.log,
                                   result |-> after.result]))
    ELSE [values |-> after.values, log |-> after.log, result |-> after.result,
          steps |-> Append(steps, [before |-> s.values, after |-> after.values,
                                   logged |-> after.log \ s.log,
                                   result |-> after.result])]

UpdateLoop(modifications, s, steps) ==
    IF modifications = <<>>
    THEN [values |-> s.values, log |-> s.log, result |-> s.result, steps |-> steps]
    ELSE UpdateLoopNext(modifications, s, steps,
                        UpdateOne(s, Head(modifications).path,
                                  Head(modifications).value))

\* a plausible slip: the file is written back whatever the loop did
WrittenAlways(values, done) ==
    [values |-> done.values,
     log |-> done.log, result |-> done.result, steps |-> done.steps]

\* values is the content of <name>/values.yaml; the result holds the
\* content the call leaves on disk: written only when the loop completes
Written(values, done) ==
    [values |-> IF Returned(done.result) THEN done.values ELSE values,
     log |-> done.log, result |-> done.result, steps |-> done.steps]

_update_values_file_with_modifications(values, modifications) ==
    Written(values, UpdateLoop(modifications, Loop(values, {}, Return(NONE)), <<>>))

----------------------------------------------------------------------------
(* The values files and modification dictionaries the patcher is run on.   *)

MaxMods == 2
MaxApplications == 2

\* a values.yaml with every shape of node a path can end at
ValuesStale ==
    Mapping([image |-> Mapping([name |-> Str("old/img"), tag |-> Str("0.9.0"),
                                pullPolicy |-> Str("Always")]),
             hub |-> Mapping([image |-> Mapping([repository |-> Str("old/img")])]),
             both |-> Mapping([name |-> Str("old/img"),
                               repository |-> Str("other/img"),
                               tag |-> Str("0.9.0")]),
             proxy |-> Mapping([port |-> Number("80")]),
             sidecar |-> Mapping([image |-> Str("old/img:0.9.0")]),
             list |-> Sequence(<<Str("old/img:0.9.0"),
                                 Mapping([name |-> Str("old/img"),
                                          tag |-> Str("0.9.0")]),
                                 Number("7")>>),
             replicas |-> Number("1"),
             enabled |-> Boolean("true"),
             nest |-> Mapping([name |-> Mapping([name |-> Str("old/img")])]),
             ports |-> Mapping([k \in {"0"} |-> Str("old/img:0.9.0")]),
             nothing |-> Null])

\* the same chart with some images already current
ValuesCurrent ==
    Mapping([image |-> Mapping([name |-> Str("new/img"), tag |-> Str("1.0.0"),
                                pullPolicy |-> Str("Always")]),
             hub |-> Mapping([image |-> Mapping([repository |-> Str("new/img"),
                                                 tag |-> Number("1")])]),
             both |-> Mapping([name |-> Str("new/img"),
                               repository |-> Str("old/img"),
                               tag |-> Str("1.0.0")]),
             proxy |-> Mapping([port |-> Number("80")]),
             sidecar |-> Mapping([image |-> Str("new/img:1.0.0")]),
             list |-> Sequence(<<Str("new/img:1.0.0"),
                                 Mapping([name |-> Str("old/img"),
                                          tag |-> Str("1.0.0")]),
                                 Number("7")>>),
             replicas |-> Number("1"),
             enabled |-> Boolean("true"),
             nest |-> Mapping([name |-> Mapping([name |-> Str("old/img")])]),
             ports |-> Mapping([k \in {"0"} |-> Str("old/img:0.9.0")]),
             nothing |-> Null])

ValuesFiles == {ValuesStale, ValuesCurrent}

PathKeys ==
    {"image", "hub.image", "both", "proxy", "sidecar.image", "sidecar.image.0",
     "list.0", "list.1", "list.2", "list", "replicas", "enabled", "nothing", "missing", "nest", "nest.name",
     "image.tag", "ports.0", "list.5"}

PathValue == [repository |-> "new/img", tag |-> "1.0.0"]

\* another image, for a second path to the first element of the list
PathValueOther == [repository |-> "new/img", tag |-> "2.0.0"]

\* a path_value that is not an image update
PathValueWithoutTag == [repository |-> "new/img"]

Modifications ==
    {[path |-> p, value |-> PathValue] : p \in PathKeys}
    \cup {[path |-> "image", value |-> PathValueWithoutTag],
          [path |-> "list.00", value |-> PathValueOther]}

PathKeysOf(modifications) ==
    {modifications[i].path : i \in 1..Len(modifications)}

\* dictionaries of at most n modifications: the keys are distinct
RECURSIVE ModificationMaps(_)
ModificationMaps(n) ==
    IF n = 0 THEN {<<>>}
    ELSE ModificationMaps(n - 1)
         \cup UNION {{Append(ms, m) : m \in {x \in Modifications :
                                              x.path \notin PathKeysOf(ms)}} :
                     ms \in {y \in ModificationMaps(n - 1) : Len(y) = n - 1}}

\* the values file and the images of a chart, before any build
InitPatch ==
    /\ GitIdle /\ PartsIdle /\ BaseIdle /\ MainIdle /\ PubIdle /\ FixIdle /\ BuildIdle
    /\ \E values \in ValuesFiles, modifications \in ModificationMaps(MaxMods) :
          patch = [calls |-> 0, values |-> values,
                   modifications |-> modifications, before |-> values,
                   log |-> {}, result |-> Return(NONE), steps |-> <<>>]

\* one call of the patcher on the file as the previous call left it
Patched(done) ==
    [calls |-> patch.calls + 1, values |-> done.values,
     modifications |-> patch.modifications, before |-> patch.values,
     log |-> done.log, result |-> done.result, steps |-> done.steps]

UpdateValuesFile ==
    /\ patch.calls < MaxApplications
    /\ patch' = Patched(_update_values_file_with_modifications(
                            patch.values, patch.modifications))
    /\ UNCHANGED <<commits, cache_count, cache_tag, cache_latest, last,
                   parts_in, parts_out, base_in, base_out, run, pub, fix, build>>

NextPatch == UpdateValuesFile

SpecPatch == InitPatch /\ [][NextPatch]_vars

PatchTypeOK == patch.calls \in 0..MaxApplications

----------------------------------------------------------------------------
(* The passes of the last call, each with the node its path ends at *)

PassCount == Len(patch.steps)
PassPath(i) == patch.modifications[i].path
PassValue(i) == patch.modifications[i].value
PassSegments(i) == SplitOn(PassPath(i), ".")
TerminalBefore(i) == Descend(patch.steps[i].before, PassSegments(i))
TerminalAfter(i) == Descend(patch.steps[i].after, PassSegments(i))

\* pass i of the last call reached a terminal node of one of the kinds
EndsAt(i, kinds) ==
    /\ DOMAIN PassValue(i) = {"repository", "tag"}
    /\ Returned(TerminalBefore(i))
    /\ TerminalBefore(i).val.kind \in kinds

RepositoryKeysAt(i) == IMAGE_REPOSITORY_KEYS \cap DOMAIN TerminalBefore(i).val.items

\* the terminal mapping of pass i holds the image under every key of keys
ImageSetAt(i, keys) ==
    /\ Returned(patch.steps[i].result)
    /\ Returned(TerminalAfter(i))
    /\ TerminalAfter(i).val.kind = "map"
    /\ "tag" \in DOMAIN TerminalAfter(i).val.items
    /\ TerminalAfter(i).val.items["tag"] = Str(PassValue(i).tag)
    /\ \A k \in keys : TerminalAfter(i).val.items[k] = Str(PassValue(i).repository)

----------------------------------------------------------------------------
(* C12 *)

\* C12 as stated: a terminal mapping must hold exactly one of 'name' and
\* 'repository': the pass fails when it holds none or both, and otherwise
\* sets that key to the repository and 'tag' to the tag.
C12_ExactlyOneKey ==
    \A i \in 1..PassCount :
        EndsAt(i, {"map"}) =>
            IF Cardinality(RepositoryKeysAt(i)) = 1
            THEN ImageSetAt(i, RepositoryKeysAt(i))
            ELSE ~Returned(patch.steps[i].result)

\* C12 amended: a terminal mapping must hold at least one of 'name' and
\* 'repository': the pass fails with a KeyError, writing nothing, only when
\* it holds neither, and otherwise sets every one of the two keys that is
\* present to the repository and 'tag' to the tag.
C12_AtLeastOneKey ==
    \A i \in 1..PassCount :
        EndsAt(i, {"map"}) =>
            IF RepositoryKeysAt(i) # {}
            THEN ImageSetAt(i, RepositoryKeysAt(i))
            ELSE /\ patch.steps[i].result
                        = Raise("KeyError", MissingKeyMessage(PassPath(i)))
                 /\ patch.steps[i].after = patch.steps[i].before

\* a pass ended at a mapping holding both keys and set both of them
C12_Witness ==
    \E i \in 1..PassCount :
        /\ EndsAt(i, {"map"})
        /\ RepositoryKeysAt(i) = IMAGE_REPOSITORY_KEYS
        /\ ImageSetAt(i, IMAGE_REPOSITORY_KEYS)
        /\ TerminalBefore(i).val.items["repository"] # Str(PassValue(i).repository)

----------------------------------------------------------------------------
(* C13 *)

ParentBefore(i) == Descend(patch.steps[i].before, Front(PassSegments(i))).val
ParentAfter(i) == Descend(patch.steps[i].after, Front(PassSegments(i))).val
LastPart(i) == PassSegments(i)[Len(PassSegments(i))]

\* the entries of the parent other than the one the path ends at
OtherEntriesKept(i) ==
    /\ ParentAfter(i).kind = ParentBefore(i).kind
    /\ DOMAIN ParentAfter(i).items = DOMAIN ParentBefore(i).items
    /\ IF ParentBefore(i).kind = "map"
       THEN \A k \in DOMAIN ParentBefore(i).items \ {LastPart(i)} :
                ParentAfter(i).items[k] = ParentBefore(i).items[k]
       ELSE \A k \in DOMAIN ParentBefore(i).items \ {StrToInt(LastPart(i)) + 1} :
                ParentAfter(i).items[k] = ParentBefore(i).items[k]

\* pass i ended at a string held by a mapping or by a sequence
EndsAtStringIn(i, parents) ==
    EndsAt(i, {"str"}) /\ ParentBefore(i).kind \in parents

\* C13: a terminal node that is a scalar string, held as a mapping value or
\* as a sequence element, is replaced in its parent by the one string
\* repository ":" tag, and the parent's other entries stay as they were.
C13_StringReplaced ==
    \A i \in 1..PassCount :
        EndsAtStringIn(i, {"map", "seq"}) =>
            /\ Returned(patch.steps[i].result)
            /\ TerminalAfter(i)
                   = Return(Str(PassValue(i).repository \o ":" \o PassValue(i).tag))
            /\ OtherEntriesKept(i)

\* one call replaced a stale string in a mapping and another in a sequence
C13_Witness ==
    /\ \E i \in 1..PassCount :
          /\ EndsAtStringIn(i, {"map"})
          /\ TerminalBefore(i).val = Str("old/img:0.9.0")
          /\ TerminalAfter(i).val = Str("new/img:1.0.0")
    /\ \E i \in 1..PassCount :
          /\ EndsAtStringIn(i, {"seq"})
          /\ TerminalBefore(i).val = Str("old/img:0.9.0")
          /\ TerminalAfter(i).val = Str("new/img:1.0.0")
          /\ Len(ParentAfter(i).items) = 3

----------------------------------------------------------------------------
(* C14 *)

\* the runtime types that are neither a mapping nor a string
OtherKinds == {"seq", "int", "bool", "null"}

\* C14: a terminal node that is neither a mapping nor a string (a sequence,
\* a number, a boolean, null) makes the patcher fail with a TypeError whose
\* message names the path and the node's runtime type; the node, and with
\* it the whole document and the file, is not modified.
C14_OtherShapeRefused ==
    \A i \in 1..PassCount :
        EndsAt(i, OtherKinds) =>
            /\ patch.steps[i].result.exc = "TypeError"
            /\ HasSubstring(patch.steps[i].result.val, PassPath(i))
            /\ HasSubstring(patch.steps[i].result.val,
                            TypeName(TerminalBefore(i).val))
            /\ TerminalAfter(i) = TerminalBefore(i)
            /\ patch.steps[i].after = patch.steps[i].before
            /\ patch.result = patch.steps[i].result
            /\ patch.values = patch.before

\* a call was stopped at a sequence after an earlier pass had succeeded
C14_Witness ==
    /\ PassCount = 2
    /\ Returned(patch.steps[1].result)
    /\ patch.steps[1].after # patch.steps[1].before
    /\ EndsAt(2, {"seq"})
    /\ patch.result.exc = "TypeError"
    /\ patch.values = patch.before

----------------------------------------------------------------------------
(* C15 *)

\* the node a path addresses: "00" and "0" are the same index
NodeAt(segments) ==
    [k \in 1..Len(segments) |->
        IF IsDigit(segments[k]) THEN IntToStr(StrToInt(segments[k]))
        ELSE segments[k]]

\* the nodes pass i of the last call assigned to
WritesOf(i) ==
    IF TerminalBefore(i).val.kind = "map"
    THEN {Append(NodeAt(PassSegments(i)), k) : k \in RepositoryKeysAt(i) \cup {"tag"}}
    ELSE {NodeAt(PassSegments(i))}

PrefixOf(a, b) == Len(a) <= Len(b) /\ SubSeq(b, 1, Len(a)) = a

\* the last call completed, and no pass assigned to a node that is, or
\* lies inside, a node another pass assigned to
IndependentWrites ==
    /\ Returned(patch.result)
    /\ \A i \in 1..PassCount : \A j \in 1..PassCount \ {i} :
          \A a \in WritesOf(i) : \A b \in WritesOf(j) : ~PrefixOf(a, b)

SecondApplication == patch.calls >= 1 /\ patch'.calls = patch.calls + 1

----------------------------------------------------------------------------
(* C16 *)

\* the nodes pass i may assign to: the string itself, or the repository
\* keys and 'tag' of the mapping
MayWrite(i) ==
    IF ~EndsAt(i, {"map", "str"}) THEN {}
    ELSE IF TerminalBefore(i).val.kind = "str" THEN {NodeAt(PassSegments(i))}
    ELSE {Append(NodeAt(PassSegments(i)), k) : k \in IMAGE_REPOSITORY_KEYS \cup {"tag"}}

MayWriteAny == UNION {MayWrite(i) : i \in 1..PassCount}

\* node a became node b with nothing assigned outside the allowed nodes:
\* same runtime types, same keys but for a created 'tag', same lengths,
\* same scalars
RECURSIVE SameExcept(_, _, _, _)
SameExcept(a, b, at, allowed) ==
    IF at \in allowed THEN TRUE
    ELSE IF a.kind # b.kind THEN FALSE
    ELSE IF a.kind = "map"
    THEN /\ DOMAIN a.items \subseteq DOMAIN b.items
         /\ DOMAIN b.items \ DOMAIN a.items \subseteq {"tag"}
         /\ \A k \in DOMAIN b.items \ DOMAIN a.items : Append(at, k) \in allowed
         /\ \A k \in DOMAIN a.items :
               SameExcept(a.items[k], b.items[k], Append(at, k), allowed)
    ELSE IF a.kind = "seq"
    THEN /\ Len(a.items) = Len(b.items)
         /\ \A k \in 1..Len(a.items) :
               SameExcept(a.items[k], b.items[k],
                          Append(at, IntToStr(k - 1)), allowed)
    ELSE a = b

\* C16: after a modification map is applied, every node that is not a
\* terminal node of one of its paths is unchanged; inside a terminal
\* mapping only 'name'/'repository' and 'tag' are written, 'tag' being
\* created when absent; all other keys and all sequence lengths are kept.
C16_Frame ==
    /\ SameExcept(patch.before, patch.values, <<>>, MayWriteAny)
    /\ \A i \in 1..PassCount :
          /\ SameExcept(patch.steps[i].before, patch.steps[i].after, <<>>,
                        MayWrite(i))
          /\ (EndsAt(i, {"map"}) /\ Returned(patch.steps[i].result)) =>
                DOMAIN TerminalAfter(i).val.items
                    = DOMAIN TerminalBefore(i).val.items \cup {"tag"}

\* a mapping without 'tag' got one, next to keys that were left alone
C16_Witness ==
    /\ patch.values # patch.before
    /\ \E i \in 1..PassCount :
          /\ EndsAt(i, {"map"})
          /\ "tag" \notin DOMAIN TerminalBefore(i).val.items
          /\ "tag" \in DOMAIN TerminalAfter(i).val.items
    /\ \E i \in 1..PassCount :
          /\ EndsAt(i, {"map"})
          /\ "pullPolicy" \in DOMAIN TerminalAfter(i).val.items
          /\ TerminalAfter(i).val # TerminalBefore(i).val

----------------------------------------------------------------------------
(* _fix_chart_version on its own: a version, fixed, and the result fixed *)
(* once more with the same strictness                                    *)

FixPrefixes == {"", "v", "vv", "V"}
FixCores == {"1.2.3", "0.0.1", "10.20.30", "1.2", "01.2.3", "x.y.z", ""}
FixSuffixes == {"", "-alpha.1", "-0.dev.git.3.habc", "+b", "-", "-01"}

FixVersions ==
    {p \o c \o s : p \in FixPrefixes, c \in FixCores, s \in FixSuffixes}

InitFix ==
    /\ GitIdle /\ PartsIdle /\ BaseIdle /\ PatchIdle /\ MainIdle /\ PubIdle /\ BuildIdle
    /\ \E version \in FixVersions, strict \in BOOLEAN :
          fix = [calls |-> 0, version |-> version, strict |-> strict,
                 result |-> Return(NONE), again |-> Return(NONE)]

CallFixChartVersion ==
    /\ fix.calls = 0
    /\ fix' = [fix EXCEPT !.calls = 1,
                          !.result = _fix_chart_version(fix.version, fix.strict)]
    /\ UNCHANGED <<gitvars, partsvars, basevars, patch, run, pub, build>>

CallFixChartVersionAgain ==
    /\ fix.calls = 1
    /\ Returned(fix.result)
    /\ fix' = [fix EXCEPT !.calls = 2,
                          !.again = _fix_chart_version(fix.result.val, fix.strict)]
    /\ UNCHANGED <<gitvars, partsvars, basevars, patch, run, pub, build>>

NextFix == CallFixChartVersion \/ CallFixChartVersionAgain

SpecFix == InitFix /\ [][NextFix]_vars

----------------------------------------------------------------------------
(* C17 *)

\* version[1:]
WithoutFirst(version) == SubSeq(version, 2, Len(version))

\* C17: _fix_chart_version(version, strict) returns version unchanged when
\* it matches SemVer2; otherwise version without its first character when
\* that is 'v' and the rest matches SemVer2 (one 'v' only); otherwise it
\* raises a ValueError naming the version when strict, and returns version
\* unchanged when not strict.
C17_FixChartVersion ==
    fix.calls >= 1 =>
        IF Semver2Match(fix.version)
        THEN fix.result = Return(fix.version)
        ELSE IF Len(fix.version) > 0 /\ CharAt(fix.version, 1) = "v"
                /\ Semver2Match(WithoutFirst(fix.version))
        THEN fix.result = Return(WithoutFirst(fix.version))
        ELSE IF fix.strict
        THEN /\ fix.result.exc = "ValueError"
             /\ HasSubstring(fix.result.val, "'" \o fix.version \o "'")
        ELSE fix.result = Return(fix.version)

\* one 'v' was stripped from a version that has a prerelease
C17_Witness ==
    /\ fix.calls >= 1
    /\ fix.version = "v1.2.3-alpha.1"
    /\ fix.result = Return("1.2.3-alpha.1")

----------------------------------------------------------------------------
(* C18 *)

\* C18: with strict=True, _fix_chart_version applied to its own result
\* does not raise and returns that result again.
C18_FixIdempotent ==
    (fix.calls = 2 /\ fix.strict) => fix.again = fix.result

\* a fixed version went through a second time
C18_Witness ==
    /\ fix.calls = 2 /\ fix.strict
    /\ fix.version = "v10.20.30+b"
    /\ fix.again = Return("10.20.30+b")

----------------------------------------------------------------------------
(* publish_pages.  The checkout of the gh-pages branch holds index.yaml,   *)
(* whose entries are the published (chart name, version) pairs.  Every     *)
(* command goes through _check_call: a command that exits non-zero raises  *)
(* CalledProcessError and nothing after it is run.                         *)

CHART_NAME == "testchart"

CloneOrFetch(isdir) == IF isdir THEN "git fetch" ELSE "git clone"

\* the commands up to the look at index.yaml
CheckoutCommands(isdir) == <<CloneOrFetch(isdir), "git checkout gh-pages">>

\* the commands from helm package to the push
PublishCommands ==
    <<"helm package", "helm repo index", "git add", "git commit", "git push">>

NoCommand == "<none>"

\* the commands of cmds that are run when failing is the one to exit non-zero
RECURSIVE IssuedOf(_, _)
IssuedOf(cmds, failing) ==
    IF cmds = <<>> THEN <<>>
    ELSE IF Head(cmds) = failing THEN <<Head(cmds)>>
    ELSE <<Head(cmds)>> \o IssuedOf(Tail(cmds), failing)

Failed(cmds, failing) == \E k \in 1..Len(cmds) : cmds[k] = failing

CalledProcessError(failing) ==
    Raise("CalledProcessError", failing \o " returned non-zero exit status")

NoIndex == [exists |-> FALSE, entries |-> {}]
Index(entries) == [exists |-> TRUE, entries |-> entries]
Entry(name, version) == [name |-> name, version |-> version]

\* a plausible slip: any published version of the chart counts
PublishedAnyVersion(index, chart_name, chart_version) ==
    /\ index.exists
    /\ \E c \in index.entries : c.name = chart_name

\* any(c["version"] == chart_version for c in published_charts)
AlreadyPublished(index, chart_name, chart_version) ==
    /\ index.exists
    /\ \E c \in index.entries : c.name = chart_name /\ c.version = chart_version

SkippingMessage(chart_version) ==
    "Skipping chart publishing of version " \o chart_version
        \o ", it is already published"

OverwritingMessage(chart_version) ==
    "Chart of version " \o chart_version \o " already exists, overwriting it."

Published(issued, log, result, index) ==
    [issued |-> issued, log |-> log, result |-> result, index |-> index]

\* from the TemporaryDirectory block on: package, index, copy, add,
\* commit, push; index.yaml of the checkout has the chart once the
\* merged index is copied over
PackageAndPush(chart_name, chart_version, index, issued, log, failing) ==
    Published(issued \o IssuedOf(PublishCommands, failing), log,
              IF Failed(PublishCommands, failing)
              THEN CalledProcessError(failing) ELSE Return(NONE),
              IF failing \in {"helm package", "helm repo index"} THEN index
              ELSE Index(index.entries \cup {Entry(chart_name, chart_version)}))

publish_pages(chart_name, chart_version, isdir, index, force, failing) ==
    IF Failed(CheckoutCommands(isdir), failing)
    THEN Published(IssuedOf(CheckoutCommands(isdir), failing), {},
                   CalledProcessError(failing), index)
    ELSE IF AlreadyPublished(index, chart_name, chart_version) /\ ~force
    THEN Published(CheckoutCommands(isdir), {SkippingMessage(chart_version)},
                   Return(NONE), index)
    ELSE PackageAndPush(chart_name, chart_version, index,
                        CheckoutCommands(isdir),
                        IF AlreadyPublished(index, chart_name, chart_version)
                        THEN {OverwritingMessage(chart_version)} ELSE {},
                        failing)

----------------------------------------------------------------------------
(* main's publishing of a chart whose version is decided *)

PublishedVersions == {"1.0.0", "1.1.0-0.dev.git.2.h3a5"}

IndexEntries ==
    {Entry(CHART_NAME, "1.0.0"), Entry(CHART_NAME, "1.1.0-0.dev.git.2.h3a5"),
     Entry("otherchart", "1.0.0")}

Indexes == {NoIndex} \cup {Index(entries) : entries \in SUBSET IndexEntries}

Commands ==
    {"git clone", "git fetch", "git checkout gh-pages", "helm package",
     "helm repo index", "git add", "git commit", "git push"}

InitPublish ==
    /\ GitIdle /\ PartsIdle /\ BaseIdle /\ PatchIdle /\ MainIdle /\ FixIdle /\ BuildIdle
    /\ \E publish_chart \in BOOLEAN, force_publish_chart \in BOOLEAN,
          chart_version \in PublishedVersions, isdir \in BOOLEAN,
          index \in Indexes :
          pub = [pc |-> "publish", publish_chart |-> publish_chart,
                 force_publish_chart |-> force_publish_chart,
                 chart_version |-> chart_version, isdir |-> isdir,
                 index |-> index]

\* the record of a call: the arguments, and what the call did
PublishedWith(force, done) ==
    [pc |-> "done", called |-> TRUE, force |-> force,
     chart_version |-> pub.chart_version, isdir |-> pub.isdir,
     index |-> pub.index, issued |-> done.issued, log |-> done.log,
     result |-> done.result, index_after |-> done.index]

NotPublished ==
    [pc |-> "done", called |-> FALSE, force |-> FALSE,
     chart_version |-> pub.chart_version, isdir |-> pub.isdir,
     index |-> pub.index, issued |-> <<>>, log |-> {},
     result |-> Return(NONE), index_after |-> pub.index]

\* main: --force-publish-chart implies --publish-chart; publish_pages is
\* called with force=args.force_publish_chart
PublishChart ==
    /\ pub.pc = "publish"
    /\ pub.publish_chart \/ pub.force_publish_chart
    /\ \E failing \in Commands \cup {NoCommand} :
          pub' = PublishedWith(pub.force_publish_chart,
                     publish_pages(CHART_NAME, pub.chart_version, pub.isdir,
                                   pub.index, pub.force_publish_chart, failing))
    /\ UNCHANGED <<gitvars, partsvars, basevars, patch, run, fix, build>>

SkipPublishChart ==
    /\ pub.pc = "publish"
    /\ ~(pub.publish_chart \/ pub.force_publish_chart)
    /\ pub' = NotPublished
    /\ UNCHANGED <<gitvars, partsvars, basevars, patch, run, fix, build>>

NextPublish == PublishChart \/ SkipPublishChart

SpecPublish == InitPublish /\ [][NextPublish]_vars

----------------------------------------------------------------------------
(* C20 *)

PublishCalled == pub.pc = "done" /\ pub.called

\* index.yaml of the checkout lists the chart at the version to publish
Listed == pub.index.exists /\ Entry(CHART_NAME, pub.chart_version) \in pub.index.entries

\* the commands issued from helm package on
IssuedToPublish == SelectSeq(pub.issued, LAMBDA c : Failed(PublishCommands, c))

\* C20: publish_pages does not replace a published chart version unless
\* forced.  When index.yaml of gh-pages lists the chart at chart_version
\* and force is false, none of helm package, helm repo index, git add,
\* git commit, git push is issued; when force is true or no such entry
\* exists, they are issued in that order, each after the one before it
\* succeeded, the push last.
C20_PublishUnlessPublished ==
    PublishCalled =>
        IF Listed /\ ~pub.force
        THEN /\ IssuedToPublish = <<>>
             /\ pub.index_after = pub.index
        ELSE /\ IssuedToPublish = SubSeq(PublishCommands, 1, Len(IssuedToPublish))
             /\ Returned(pub.result) =>
                   /\ IssuedToPublish = PublishCommands
                   /\ pub.issued[Len(pub.issued)] = "git push"
             /\ (~Returned(pub.result) /\ IssuedToPublish # <<>>) =>
                   pub.result = CalledProcessError(pub.issued[Len(pub.issued)])
             /\ (\A k \in 1..Len(pub.issued) :
                    pub.issued[k] = "git push" => k = Len(pub.issued))

\* a listed version was left alone: the checkout was fetched and read,
\* and nothing was packaged or pushed
C20_Witness ==
    /\ PublishCalled
    /\ Listed /\ ~pub.force
    /\ Entry(CHART_NAME, "1.0.0") \in pub.index.entries
    /\ pub.chart_version = "1.1.0-0.dev.git.2.h3a5"
    /\ pub.issued = <<"git fetch", "git checkout gh-pages">>
    /\ pub.log = {SkippingMessage(pub.chart_version)}
    /\ Returned(pub.result)

----------------------------------------------------------------------------
(* build_images: the images it builds and pushes.  platforms is a set, the *)
(* empty set for None and for an empty list (both are false); a command is *)
(* what _check_call is given.  An image that exists is found locally and   *)
(* on the registry, for every platform.                                    *)

DOCKER_BUILD == "docker-build"
DOCKER_BUILDX == "docker-buildx"

Command(cmd, image_spec, platforms, option) ==
    [cmd |-> cmd, image |-> image_spec, platforms |-> platforms, option |-> option]

DockerPush(image_spec) == Command("docker push", image_spec, {}, "")

\* the --push or --load of docker buildx
BuildxOption(push, platforms) ==
    IF push THEN "--push"
    ELSE IF Cardinality(platforms) <= 1 THEN "--load"
    ELSE ""

\* the commands of build_image
build_image(image_spec, push, builder, platforms) ==
    IF builder = DOCKER_BUILDX
    THEN <<Command("docker buildx build", image_spec, platforms,
                   BuildxOption(push, platforms))>>
    ELSE <<Command("docker build", image_spec, platforms, "")>>
         \o (IF push THEN <<DockerPush(image_spec)>> ELSE <<>>)

_image_needs_pushing(image, platforms, existing) == image \notin existing

_image_needs_building(image, platforms, existing) ==
    IF platforms # {}
    THEN _image_needs_pushing(image, platforms, existing)
    ELSE image \notin existing /\ _image_needs_pushing(image, platforms, existing)

\* platforms as the pass over one image leaves it
PlatformsLeft(platforms, skip_platforms) ==
    IF platforms # {} /\ skip_platforms # {}
    THEN platforms \ skip_platforms
    ELSE platforms

\* no matching platforms: the image is skipped
NoMatchingPlatforms(platforms, skip_platforms) ==
    platforms # {} /\ skip_platforms # {} /\ platforms \ skip_platforms = {}

\* build image and optionally push image
BuildOrPush(image_spec, platforms, a) ==
    IF a.force_build \/ _image_needs_building(image_spec, platforms, a.existing)
    THEN build_image(image_spec, a.push \/ a.force_push, a.builder, platforms)
    ELSE IF (a.push \/ a.force_push)
            /\ (a.force_push \/ _image_needs_pushing(image_spec, platforms, a.existing))
    THEN <<DockerPush(image_spec)>>
    ELSE <<>>

\* image_spec, of an image without an imageName of its own
ImageSpec(options, a) == a.prefix \o options.name \o ":" \o a.tag

\* the loop over images.items() from skip_build on; platforms is the one
\* variable of the function, assigned in the loop
RECURSIVE BuildLoop(_, _, _, _)
BuildLoop(images, platforms, a, commands) ==
    IF images = <<>> THEN commands
    ELSE IF a.skip_build
    THEN BuildLoop(Tail(images), platforms, a, commands)
    ELSE IF NoMatchingPlatforms(platforms, Head(images).skipPlatforms)
    THEN BuildLoop(Tail(images), {}, a, commands)
    ELSE BuildLoop(Tail(images),
                   PlatformsLeft(platforms, Head(images).skipPlatforms), a,
                   commands \o BuildOrPush(
                       ImageSpec(Head(images), a),
                       PlatformsLeft(platforms, Head(images).skipPlatforms), a))

BuildCommands(images, platforms, a) == BuildLoop(images, platforms, a, <<>>)

----------------------------------------------------------------------------
(* main, for the charts of chartpress.yaml, on a repository whose history  *)
(* is given.  run.pc is the statement main is at and run.chart the chart   *)
(* its loop is at; Chart.yaml is the version field and values.yaml the     *)
(* tree of that chart, written the files of that chart main has written.   *)
(* A chart has one image.                                                  *)

RESET_VERSION == "0.0.1-set.by.chartpress"
RESET_TAG == "set-by-chartpress"

\* bool(s) of an optional string
Truthy(s) == s # NONE /\ s # ""

RunHistories ==
    {<<[files |-> Files, tag |-> NONE]>>,
     <<[files |-> Files, tag |-> "1.2.3"]>>,
     <<[files |-> Files, tag |-> "1.2.3"], [files |-> {"README.md"}, tag |-> NONE]>>,
     <<[files |-> Files, tag |-> "v1.2.3"],
       [files |-> {"image/Dockerfile"}, tag |-> NONE]>>,
     <<[files |-> Files, tag |-> "1.2.3-alpha.1"],
       [files |-> {"testchart/values.yaml"}, tag |-> NONE]>>,
     <<[files |-> Files, tag |-> "x.y.z"], [files |-> {"README.md"}, tag |-> NONE]>>}

RunTags == {NONE, "", "1.2.3-test.tag"}
ConfiguredBaseVersions == {NONE, "1.2.3", "1.2.4-0.dev", "1.2.2-0.dev", "x.y.z"}

RunIndexes == {NoIndex, Index({Entry(CHART_NAME, "1.2.3")})}
RunFailing == {NoCommand, "git push"}

\* a second chart of the same repository
OtherChartOptions ==
    [name |-> "otherchart", imagePrefix |-> "other/", paths |-> {},
     images |-> <<"testimage">>]

RunCharts == {<<ChartOptions>>, <<ChartOptions, OtherChartOptions>>}

\* the chart the loop of main is at
Chart == run.charts[run.chart]

InitMain ==
    /\ commits \in RunHistories
    /\ cache_count = EmptyCache /\ cache_tag = EmptyCache
    /\ cache_latest = EmptyCache
    /\ last = NoCall
    /\ PartsIdle /\ BaseIdle /\ PatchIdle /\ PubIdle /\ FixIdle /\ BuildIdle
    /\ \E tag \in RunTags, reset \in BOOLEAN, list_images \in BOOLEAN,
          publish_chart \in BOOLEAN, no_build \in BOOLEAN,
          baseVersion \in ConfiguredBaseVersions, charts \in RunCharts :
          run = [pc |-> "args",
                 args |-> [tag |-> tag, reset |-> reset,
                           list_images |-> list_images,
                           publish_chart |-> publish_chart,
                           no_build |-> no_build],
                 charts |-> charts, chart |-> 1,
                 issued |-> <<>>, stdout |-> <<>>,
                 baseVersion |-> baseVersion,
                 chart_yaml |-> RESET_VERSION, values |-> ValuesStale,
                 validated |-> FALSE, written |-> {},
                 base_version |-> NONE, chart_version |-> NONE,
                 modifications |-> <<>>, result |-> Return(NONE)]

\* argparser.error: the usage message, exit status 2
UsageMessage == "chartpress --reset takes no additional arguments"

\* --reset came with another argument
ResetWithMore(args) ==
    args.reset /\ (args.tag # NONE \/ args.list_images \/ args.publish_chart
                      \/ args.no_build)

\* parse_args and the settling of the flags
ParseArgs ==
    /\ run.pc = "args"
    /\ run' = IF ResetWithMore(run.args)
              THEN [run EXCEPT !.pc = "done",
                               !.result = Raise("SystemExit", UsageMessage)]
              ELSE [run EXCEPT !.pc = "base_version",
                               !.args.no_build =
                                   run.args.no_build
                                   \/ run.args.list_images \/ run.args.reset,
                               !.args.publish_chart =
                                   run.args.publish_chart
                                   /\ ~(run.args.list_images \/ run.args.reset)]
    /\ UNCHANGED <<gitvars, partsvars, basevars, patch, pub, fix, build>>

Checked(validated, result, c) ==
    [validated |-> validated, result |-> result, c |-> c]

CheckedAgainst(baseVersion, tc) ==
    Checked(TRUE, _check_base_version(baseVersion, tc.val[1], tc.val[2]), tc.c)

\* a plausible slip: the configured baseVersion is used as it is
BaseVersionUnchecked(tag, baseVersion, c) ==
    Checked(FALSE, Return(IF Truthy(tag) THEN NONE ELSE baseVersion), c)

\* base_version of the loop body: validated when no tag is given and a
\* baseVersion is configured
BaseVersionOf(tag, baseVersion, c) ==
    IF Truthy(tag) THEN Checked(FALSE, Return(NONE), c)
    ELSE IF ~Truthy(baseVersion) THEN Checked(FALSE, Return(baseVersion), c)
    ELSE CheckedAgainst(baseVersion,
                        _get_latest_tag_and_count(c, KeyNoArgs, "HEAD"))

ForcedVersion(args) ==
    IF Truthy(args.tag) THEN args.tag
    ELSE IF args.reset THEN RESET_VERSION
    ELSE NONE

CommonImageTag(args) ==
    IF Truthy(args.tag) THEN args.tag
    ELSE IF args.reset THEN RESET_TAG
    ELSE NONE

SetCaches(c) ==
    /\ cache_count' = c.count
    /\ cache_tag' = c.tag
    /\ cache_latest' = c.latest

RunBaseVersion(checked) ==
    /\ SetCaches(checked.c)
    /\ run' = IF Returned(checked.result)
              THEN [run EXCEPT !.pc = "build_chart",
                               !.validated = checked.validated,
                               !.base_version = checked.result.val]
              ELSE [run EXCEPT !.pc = "done",
                               !.validated = checked.validated,
                               !.result = checked.result]

\* forced_version and base_version of the loop body
CheckBaseVersion ==
    /\ run.pc = "base_version"
    /\ RunBaseVersion(BaseVersionOf(run.args.tag, run.baseVersion, Caches))
    /\ UNCHANGED <<commits, last, partsvars, basevars, patch, pub, fix, build>>

\* build_chart from the decided version on: fix it, write Chart.yaml when
\* its version differs
RunBuildChart(v, fixed) ==
    /\ SetCaches(v.c)
    /\ run' = IF ~Returned(fixed)
              THEN [run EXCEPT !.pc = "done", !.result = fixed]
              ELSE [run EXCEPT !.pc = "build_images",
                               !.chart_version = fixed.val,
                               !.chart_yaml = fixed.val,
                               !.written = IF run.chart_yaml = fixed.val
                                           THEN run.written
                                           ELSE run.written \cup {"Chart.yaml"}]

ChartVersionFixed(v, strict_version) ==
    RunBuildChart(v, _fix_chart_version(v.val, strict_version))

BuildChartStep ==
    /\ run.pc = "build_chart"
    /\ IF run.args.list_images
       THEN /\ run' = [run EXCEPT !.pc = "build_images"]
            /\ UNCHANGED <<cache_count, cache_tag, cache_latest>>
       ELSE ChartVersionFixed(
                ChartVersion(Caches, _get_all_chart_paths(Chart),
                             ForcedVersion(run.args), FALSE, run.base_version),
                run.args.publish_chart)
    /\ UNCHANGED <<commits, last, partsvars, basevars, patch, pub, fix, build>>

\* modifications.items()
RECURSIVE ItemsOf(_, _)
ItemsOf(mods, paths) ==
    IF paths = {} THEN <<>>
    ELSE <<[path |-> CHOOSE p \in paths : TRUE,
            value |-> mods[CHOOSE p \in paths : TRUE]]>>
         \o ItemsOf(mods, paths \ {CHOOSE p \in paths : TRUE})

\* the loop of --list-images over values_file_modifications.items()
RECURSIVE PrintImages(_, _, _)
PrintImages(items, seen, out) ==
    IF items = <<>> THEN out
    ELSE IF ImageString(Head(items).value) \in seen
    THEN PrintImages(Tail(items), seen, out)
    ELSE PrintImages(Tail(items), seen \cup {ImageString(Head(items).value)},
                     Append(out, ImageString(Head(items).value)))

\* the end of the loop body: the next chart of chartpress.yaml, if any
NextChart(r) ==
    IF r.chart < Len(r.charts)
    THEN [r EXCEPT !.pc = "base_version", !.chart = r.chart + 1,
                   !.chart_yaml = RESET_VERSION, !.values = ValuesStale,
                   !.validated = FALSE, !.written = {},
                   !.base_version = NONE, !.chart_version = NONE,
                   !.modifications = <<>>]
    ELSE [r EXCEPT !.pc = "done"]

\* the arguments main gives build_images, nothing being built yet
BuildArgs(args, prefix, image_tag) ==
    [prefix |-> prefix, tag |-> image_tag, push |-> FALSE, force_push |-> FALSE,
     force_build |-> FALSE, skip_build |-> args.no_build \/ args.reset,
     builder |-> DOCKER_BUILD, existing |-> {}]

\* the images of the chart as build_images is given them
ImagesBuilt(images) ==
    [i \in 1..Len(images) |-> [name |-> images[i], skipPlatforms |-> {}]]

TagOf(items) == IF items = <<>> THEN NONE ELSE Head(items).value.tag

\* build_images has returned: --list-images prints and returns from main
ImagesListed(r, items, commands) ==
    [r EXCEPT !.pc = IF r.args.list_images THEN "done" ELSE "values",
              !.modifications = items,
              !.issued = r.issued \o commands,
              !.stdout = IF r.args.list_images
                         THEN r.stdout \o PrintImages(items, {}, <<>>)
                         ELSE r.stdout]

RunBuildImagesItems(r, items) ==
    run' = ImagesListed(r, items,
                        BuildCommands(ImagesBuilt(r.charts[r.chart].images), {},
                                      BuildArgs(r.args,
                                                r.charts[r.chart].imagePrefix,
                                                TagOf(items))))

RunBuildImages(r) ==
    /\ SetCaches(r.c)
    /\ RunBuildImagesItems(run, ItemsOf(r.val, DOMAIN r.val))

BuildImagesStep ==
    /\ run.pc = "build_images"
    /\ RunBuildImages(build_images(Caches, Chart.imagePrefix,
                                   Chart.images, CommonImageTag(run.args),
                                   FALSE, run.base_version))
    /\ UNCHANGED <<commits, last, partsvars, basevars, patch, pub, fix, build>>

RunUpdateValues(done) ==
    run' = IF Returned(done.result)
           THEN [run EXCEPT !.pc = "publish", !.values = done.values,
                            !.written = run.written \cup {"values.yaml"}]
           ELSE [run EXCEPT !.pc = "done", !.result = done.result]

UpdateValuesStep ==
    /\ run.pc = "values"
    /\ RunUpdateValues(_update_values_file_with_modifications(
                           run.values, run.modifications))
    /\ UNCHANGED <<gitvars, partsvars, basevars, patch, pub, fix, build>>

RunPublished(done) ==
    /\ pub' = [pc |-> "done", called |-> TRUE, result |-> done.result,
               issued |-> done.issued]
    /\ run' = IF Returned(done.result)
              THEN NextChart([run EXCEPT !.result = done.result])
              ELSE [run EXCEPT !.pc = "done", !.result = done.result]

PublishStep ==
    /\ run.pc = "publish"
    /\ IF run.args.publish_chart
       THEN \E isdir \in BOOLEAN, index \in RunIndexes, failing \in RunFailing :
               RunPublished(publish_pages(Chart.name, run.chart_version, isdir,
                                          index, FALSE, failing))
       ELSE /\ run' = NextChart(run)
            /\ pub' = pub
    /\ UNCHANGED <<gitvars, partsvars, basevars, patch, fix, build>>

NextMain ==
    \/ ParseArgs
    \/ CheckBaseVersion
    \/ BuildChartStep
    \/ BuildImagesStep
    \/ UpdateValuesStep
    \/ PublishStep

SpecMain == InitMain /\ [][NextMain]_vars

MainTypeOK == run.pc \in {"args", "base_version", "build_chart", "build_images",
                          "values", "publish", "done"}

----------------------------------------------------------------------------
(* C19 *)

\* the latest tag of the branch and the commits since, read off the history
TaggedCommits == TaggedUpTo(Len(commits))
LatestTag == commits[Latest(TaggedCommits)].tag
CommitsSinceTag == Len(commits) - Latest(TaggedCommits)

\* the configured baseVersion is not greater than the latest tag, and HEAD
\* is past that tag
BaseVersionNotGreater ==
    /\ Truthy(run.baseVersion)
    /\ Semver2Match(Normalised(run.baseVersion))
    /\ TaggedCommits # {}
    /\ CommitsSinceTag > 0
    /\ Semver2Match(LatestTag)
    /\ \/ TripleLess(VersionNumber(Normalised(run.baseVersion)),
                     VersionNumber(LatestTag))
       \/ /\ VersionNumber(Normalised(run.baseVersion)) = VersionNumber(LatestTag)
          /\ Semver2Groups(LatestTag).prerelease = NONE

\* main got past its arguments and past the validation of the loop body
PastValidation ==
    ~ResetWithMore(run.args) /\ run.pc \notin {"args", "base_version"}

FilesUntouched ==
    /\ run.written = {}
    /\ run.chart_yaml = RESET_VERSION
    /\ run.values = ValuesStale

RefusedBeforeWriting ==
    /\ run.pc = "done"
    /\ run.result.exc = "ValueError"
    /\ HasSubstring(run.result.val, "is not greater than latest tag")
    /\ FilesUntouched

\* C19 as stated: without --tag (--reset included) a configured
\* baseVersion is validated before the chart's Chart.yaml or values.yaml
\* is written, and a baseVersion not greater than the latest tag, with
\* HEAD past the tag, makes main raise ValueError with neither file
\* modified; with --tag the baseVersion is not validated at all.
C19_ValidatedUnlessTagGiven ==
    /\ (run.args.tag = NONE /\ Truthy(run.baseVersion) /\ run.written # {})
           => run.validated
    /\ (run.args.tag = NONE /\ BaseVersionNotGreater /\ PastValidation)
           => RefusedBeforeWriting
    /\ run.args.tag # NONE => ~run.validated

\* C19 amended: as stated, a --tag with an empty value counting as no
\* --tag: the baseVersion is validated unless --tag is given a non-empty
\* value.
C19_ValidatedUnlessTagNonEmpty ==
    /\ (~Truthy(run.args.tag) /\ Truthy(run.baseVersion) /\ run.written # {})
           => run.validated
    /\ (~Truthy(run.args.tag) /\ BaseVersionNotGreater /\ PastValidation)
           => RefusedBeforeWriting
    /\ Truthy(run.args.tag) => ~run.validated

\* --reset was refused for a baseVersion left at the released version
C19_Witness ==
    /\ run.args.reset
    /\ run.baseVersion = "1.2.3"
    /\ BaseVersionNotGreater
    /\ LatestTag = "1.2.3" /\ CommitsSinceTag = 1
    /\ run.validated
    /\ RefusedBeforeWriting

----------------------------------------------------------------------------
(* C24, C25 *)

BaseInvalid == ~Semver2Match(Normalised(base_in.base_version))

\* C24 as stated: a base version that is not SemVer2 once the default
\* prerelease is appended is refused with a ValueError whatever the tag
\* and the count are (exactly on a tag too), and the message holds the
\* base version as configured and the latest tag.
C24_InvalidNamesBoth ==
    (BaseCalled /\ BaseInvalid) =>
        /\ base_out.result.exc = "ValueError"
        /\ HasSubstring(base_out.result.val, base_in.base_version)
        /\ base_in.tag # NONE => HasSubstring(base_out.result.val, base_in.tag)

\* C24 amended: as stated, the message holding the base version as
\* configured (with the default prerelease after it when it had none),
\* and not the latest tag.
C24_InvalidNamesBase ==
    (BaseCalled /\ BaseInvalid) =>
        /\ base_out.result.exc = "ValueError"
        /\ HasSubstring(base_out.result.val, base_in.base_version)
        /\ base_out.result.val =
              "baseVersion: " \o Normalised(base_in.base_version)
                  \o " must be a valid semver version (e.g. 1.2.3-0.dev), but doesn't appear to be valid."

\* an invalid base version refused exactly on a tag
C24_Witness ==
    /\ BaseCalled
    /\ base_in.base_version = "1.2"
    /\ base_in.tag = "1.2.3" /\ base_in.count = 0
    /\ base_out.result.exc = "ValueError"
    /\ HasSubstring(base_out.result.val, "baseVersion: 1.2-0.dev must be")

BaseValid == BaseCalled /\ ~BaseInvalid /\ base_in.tag # NONE

\* C25 as stated: a latest tag that is not SemVer2 is never compared: the
\* base version is returned, also when the tag is a SemVer2 version with
\* leading 'v' characters.
C25_OtherTagIgnored ==
    (BaseValid /\ ~Semver2Match(base_in.tag)) =>
        base_out.result = Return(Normalised(base_in.base_version))

\* C25 amended: a latest tag that is not SemVer2 once its leading 'v'
\* characters are stripped is never compared and the base version is
\* returned; a tag that is a SemVer2 version with leading 'v' characters
\* is compared as that version.
C25_OtherStrippedTagIgnored ==
    /\ (BaseValid /\ ~Semver2Match(LStrip(base_in.tag, "v"))) =>
           base_out.result = Return(Normalised(base_in.base_version))
    /\ (BaseValid /\ ~Semver2Match(base_in.tag)
           /\ NotGreaterThan(LStrip(base_in.tag, "v"))) => RaisedNotGreater

\* a tag that is no version at all was ignored with HEAD past it
C25_Witness ==
    /\ BaseValid
    /\ base_in.tag = "x.y.z" /\ base_in.count > 0
    /\ base_in.base_version = "1.2.3"
    /\ base_out.result = Return("1.2.3-0.dev")

----------------------------------------------------------------------------
(* C26 *)

\* where the descent along the segments stops: the node reached and the
\* segments left; a segment of digits steps into a sequence, any other
\* into a mapping
RECURSIVE Reach(_, _)
Reach(node, segments) ==
    IF segments = <<>> THEN [node |-> node, rest |-> segments]
    ELSE IF node.kind = "map" /\ ~IsDigit(Head(segments))
            /\ Head(segments) \in DOMAIN node.items
    THEN Reach(node.items[Head(segments)], Tail(segments))
    ELSE IF node.kind = "seq" /\ IsDigit(Head(segments))
            /\ StrToInt(Head(segments)) < Len(node.items)
    THEN Reach(node.items[StrToInt(Head(segments)) + 1], Tail(segments))
    ELSE [node |-> node, rest |-> segments]

StoppedAt(i) == Reach(patch.steps[i].before, PassSegments(i))

\* pass i failed with the exception, changing nothing
FailedWith(i, exc) ==
    /\ patch.steps[i].result.exc = exc
    /\ patch.steps[i].after = patch.steps[i].before

\* C26: a pass whose path stops at a mapping, for a key the mapping has
\* not or for a segment of digits (the mapping may hold that string as a
\* key), fails with a KeyError; one whose path stops at a sequence for an
\* index out of range fails with an IndexError; neither changes a value.
C26_MissingRaises ==
    \A i \in 1..PassCount :
        (DOMAIN PassValue(i) = {"repository", "tag"} /\ StoppedAt(i).rest # <<>>) =>
            /\ StoppedAt(i).node.kind = "map" => FailedWith(i, "KeyError")
            /\ (StoppedAt(i).node.kind = "seq" /\ IsDigit(Head(StoppedAt(i).rest)))
                   => FailedWith(i, "IndexError")

\* the second path names a key of digits that the mapping holds
C26_Witness ==
    /\ patch.calls = 1
    /\ PassCount = 2
    /\ PassPath(1) = "image" /\ patch.steps[1].after # patch.steps[1].before
    /\ PassPath(2) = "ports.0"
    /\ "0" \in DOMAIN StoppedAt(2).node.items
    /\ FailedWith(2, "KeyError")

----------------------------------------------------------------------------
(* C27 *)

\* pass i of the last call completed at a mapping or a string
Completed(i) ==
    /\ EndsAt(i, {"map", "str"})
    /\ Returned(patch.steps[i].result)

\* the fields pass i changed: keys of the terminal mapping, or the string
\* itself (named "")
ChangedFields(i) ==
    IF TerminalBefore(i).val.kind = "str"
    THEN IF TerminalAfter(i).val = TerminalBefore(i).val THEN {} ELSE {""}
    ELSE {k \in DOMAIN TerminalAfter(i).val.items :
             \/ k \notin DOMAIN TerminalBefore(i).val.items
             \/ TerminalBefore(i).val.items[k] # TerminalAfter(i).val.items[k]}

FieldPath(i, f) == IF f = "" THEN PassPath(i) ELSE PassPath(i) \o "." \o f

\* the text of a field of pass i before and after it
OldText(i, f) ==
    IF f = "" THEN TerminalBefore(i).val.val
    ELSE TerminalBefore(i).val.items[f].val
NewText(i, f) ==
    IF f = "" THEN TerminalAfter(i).val.val
    ELSE TerminalAfter(i).val.items[f].val

HasOldText(i, f) ==
    \/ f = ""
    \/ /\ f \in DOMAIN TerminalBefore(i).val.items
       /\ TerminalBefore(i).val.items[f].kind \in {"str", "int"}

----------------------------------------------------------------------------
(* C29 *)

\* C29: the file is stored once, after the loop: a call in which a pass
\* fails (a path_value that is not exactly repository and tag, a path
\* that does not resolve, a mapping without a repository key, a node of
\* another type) leaves values.yaml as it was before the call, whatever
\* the passes before it changed in memory; a call in which every pass
\* completes leaves the document of its last pass.
C29_StoredAfterAll ==
    patch.calls > 0 =>
        /\ ~Returned(patch.result) => patch.values = patch.before
        /\ (Returned(patch.result) /\ PassCount > 0) =>
               patch.values = patch.steps[PassCount].after

\* the first modification was applied in memory, the second is malformed
C29_Witness ==
    /\ patch.calls = 1
    /\ PassCount = 2
    /\ Returned(patch.steps[1].result)
    /\ patch.steps[1].after # patch.steps[1].before
    /\ DOMAIN PassValue(2) # {"repository", "tag"}
    /\ patch.result.exc = "ValueError"
    /\ patch.values = patch.before

----------------------------------------------------------------------------
(* C22, C23, C30 (specification Spec) *)

\* the identifier is built on the base string
BuiltOn(id, base) ==
    \/ id = base
    \/ StartsWith(id, base \o "." \o GIT_PREFIX \o ".")
    \/ StartsWith(id, base \o "-" \o PRERELEASE_PREFIX \o ".")

OnTag(call) == commits[ResolvedCommit(PathsOf(call.op))].tag # NONE

Configured(call) == Derived(call) /\ call.base_version # NONE

\* C22 as stated: the latest tag replaces a configured base_version only
\* exactly on the tag with long false; in every other case, exactly on a
\* tag with long true too, the identifier is built on the configured
\* base_version.
C22_TagOverridesUnlessLong ==
    Configured(last) =>
        \A id \in last.idents :
            IF OnTag(last) /\ ~last.long
            THEN id = commits[ResolvedCommit(PathsOf(last.op))].tag
            ELSE BuiltOn(id, last.base_version)

\* C22 amended: the latest tag replaces a configured base_version exactly
\* on the tag, with long false (the identifier is the bare tag) and with
\* long true (the identifier is built on the tag, with a suffix); in
\* every other case the identifier is built on the configured
\* base_version.
C22_TagOverridesOnTag ==
    Configured(last) =>
        \A id \in last.idents :
            IF OnTag(last)
            THEN /\ BuiltOn(id, commits[ResolvedCommit(PathsOf(last.op))].tag)
                 /\ ~BuiltOn(id, last.base_version)
                 /\ HasSuffix(id) <=> last.long
            ELSE /\ BuiltOn(id, last.base_version)
                 /\ HasSuffix(id)

\* exactly on a tag with long true and a base_version configured
C22_Witness ==
    /\ Configured(last) /\ last.long
    /\ last.op = "build_chart"
    /\ Len(commits) = 2
    /\ commits[2].tag = "1.0.0"
    /\ last.idents = {"1.0.0-0.dev.git.2.h16a"}

\* the hash of a derived identifier: the last field, without its h
HashIn(id) == Tail(SuffixFields(id)[Len(SuffixFields(id))])

\* A run, a commit, and the same run again: each run is a process of its
\* own (the caches are cleared in between), the history before the first
\* run has at most MaxFrameCommits commits and any tags.
MaxFrameCommits == 2

InitFrame == Init

\* the first run: chartpress derives the chart's version or the images' tags
FrameRun(op, long, base_version) ==
    /\ last = NoCall
    /\ IF op = "build_chart"
       THEN BuildChart(NONE, long, base_version)
       ELSE BuildImages(NONE, long, base_version)

\* git commit after a run: one file, no tag
FrameCommit(f) ==
    /\ Derived(last)
    /\ ~CachesWarm
    /\ Len(commits) <= MaxFrameCommits
    /\ commits' = Append(commits, [files |-> {f}, tag |-> NONE])
    /\ last' = [last EXCEPT !.current = FALSE]
    /\ UNCHANGED <<cache_count, cache_tag, cache_latest, partsvars, basevars, filevars>>

\* the identifiers of a call with the caches it leaves
RunIdents(c, op, long, base_version) ==
    IF op = "build_chart"
    THEN LET v == ChartVersion(c, PathsOf(op), NONE, long, base_version)
         IN  [val |-> {v.val}, c |-> v.c]
    ELSE LET r == build_images(c, ChartOptions.imagePrefix, ChartOptions.images,
                               NONE, long, base_version)
         IN  [val |-> {r.val[p].tag : p \in DOMAIN r.val}, c |-> r.c]

Rerun(call, r) ==
    /\ SetCaches(r.c)
    /\ last' = [op |-> call.op, forced |-> NONE, long |-> call.long,
                base_version |-> call.base_version, current |-> TRUE,
                idents |-> r.val, before |-> call.idents]

\* the same run on the new history
FrameRerun ==
    /\ last.op # "none" /\ ~last.current
    /\ Rerun(last, RunIdents(Caches, last.op, last.long, last.base_version))
    /\ UNCHANGED <<commits, partsvars, basevars, filevars>>

NextFrame ==
    \/ \E f \in LaterFiles :
          last = NoCall /\ Len(commits) < MaxFrameCommits /\ GitCommit(f)
    \/ \E i \in 1..Len(commits) : \E t \in TagNames : last = NoCall /\ GitTag(i, t)
    \/ CacheClear
    \/ \E op \in {"build_chart", "build_images"} : \E long \in BOOLEAN :
         \E base_version \in RunBaseVersions : FrameRun(op, long, base_version)
    \/ \E f \in LaterFiles : FrameCommit(f)
    \/ FrameRerun

SpecFrame == InitFrame /\ [][NextFrame]_vars

Reran == last.current /\ "before" \in DOMAIN last

\* C23: a commit is added after a run (no tag with it): if it touches none
\* of the run's paths, the same run on the new history returns the same
\* identifier; if it touches one of them, the identifier of the new run
\* carries the count and the hash of the new commit.
C23_OnlyLatestCommit ==
    Reran =>
        IF Touches(Len(commits), PathsOf(last.op))
        THEN \A id \in last.idents :
                /\ HasSuffix(id)
                /\ CounterOf(id) = Len(commits)
                /\ HashIn(id) = HashOf(Len(commits))
        ELSE last.idents = last.before

\* the images were tagged on a tag; a commit then touched the image
C23_Witness ==
    /\ Reran
    /\ last.op = "build_images"
    /\ last.before = {"1.0.0"}
    /\ Len(commits) = 2
    /\ commits[1].tag = "1.0.0"
    /\ commits[2].files = {"image/Dockerfile"}
    /\ last.idents = {"1.0.0-0.dev.git.2.h16a"}

ChartPaths == _get_all_chart_paths(ChartOptions)
ImagePaths(name) == _get_all_image_paths(name, ImageOptions[name])
ImageNames == {ChartOptions.images[i] : i \in 1..Len(ChartOptions.images)}

\* the images are tagged after the chart got its version, on one history
\* and with the same long and base_version
OneRun ==
    /\ Derived(last) /\ last.op = "build_chart"
    /\ Derived(last') /\ last'.op = "build_images"
    /\ last'.long = last.long /\ last'.base_version = last.base_version

\* C30: the chart's paths hold the paths of each of its images and the
\* commit resolved for the chart is not before the one resolved for an
\* image; in one run the counter of the chart version is not less than
\* the counter of an image tag, and the chart version has a suffix when
\* an image tag has one.
C30_RunStep ==
    /\ \A name \in ImageNames :
          /\ ImagePaths(name) \subseteq ChartPaths
          /\ ResolvedCommit(ImagePaths(name)) <= ResolvedCommit(ChartPaths)
    /\ OneRun =>
          \A chart \in last.idents : \A image \in last'.idents :
              HasSuffix(image) =>
                  /\ HasSuffix(chart)
                  /\ CounterOf(image) <= CounterOf(chart)

C30_ChartNotBehindImages == [][C30_RunStep]_vars

\* no tag: the chart's version counts the commit on values.yaml, the
\* image's tag does not
C30_Witness ==
    /\ Derived(last) /\ last.op = "build_images"
    /\ TaggedUpTo(Len(commits)) = {}
    /\ Len(commits) = 2
    /\ commits[2].files = {"testchart/values.yaml"}
    /\ ChartPaths \in DOMAIN cache_latest
    /\ cache_latest[ChartPaths] = HashOf(2)
    /\ \E id \in last.idents : HasSuffix(id) /\ CounterOf(id) = 1

----------------------------------------------------------------------------
(* The calls of build_images *)

MaxImages == 2

PLATFORMS == {"linux/amd64", "linux/arm64"}

\* the images of a chart, in the order of chartpress.yaml
BuildNames == <<"testimage", "hub", "proxy", "sidecar">>

ImageSeqs ==
    UNION {[1..n -> SUBSET PLATFORMS] : n \in 0..MaxImages}

ImagesOf(skips) ==
    [i \in 1..Len(skips) |-> [name |-> BuildNames[i], skipPlatforms |-> skips[i]]]

InitBuild ==
    /\ GitIdle /\ PartsIdle /\ BaseIdle /\ PatchIdle /\ MainIdle /\ PubIdle /\ FixIdle
    /\ \E skips \in ImageSeqs, platforms \in SUBSET PLATFORMS,
          push \in BOOLEAN, force_build \in BOOLEAN, skip_build \in BOOLEAN,
          builder \in {DOCKER_BUILD, DOCKER_BUILDX}, exist \in BOOLEAN :
          build = [pc |-> "call", images |-> ImagesOf(skips),
                   platforms |-> platforms,
                   args |-> [prefix |-> "pre/", tag |-> "1.2.3", push |-> push,
                             force_push |-> FALSE, force_build |-> force_build,
                             skip_build |-> skip_build, builder |-> builder,
                             existing |-> IF exist
                                          THEN {"pre/" \o BuildNames[i] \o ":1.2.3" :
                                                   i \in 1..Len(skips)}
                                          ELSE {}],
                   commands |-> <<>>]

CallBuildImages ==
    /\ build.pc = "call"
    /\ build' = [build EXCEPT !.pc = "done",
                              !.commands = BuildCommands(build.images,
                                                         build.platforms, build.args)]
    /\ UNCHANGED <<gitvars, partsvars, basevars, patch, run, pub, fix>>

NextBuild == CallBuildImages

SpecBuild == InitBuild /\ [][NextBuild]_vars

----------------------------------------------------------------------------
(* C28 *)

Built == build.pc = "done" /\ ~build.args.skip_build

\* the platforms asked for without the image's own skipPlatforms
OwnPlatforms(i) == build.platforms \ build.images[i].skipPlatforms

\* the build commands issued for image i
BuildsOf(i) ==
    {k \in 1..Len(build.commands) :
        /\ build.commands[k].image = ImageSpec(build.images[i], build.args)
        /\ build.commands[k].cmd # "docker push"}

\* C28: every image is built for the platforms asked for without its own
\* skipPlatforms, whatever the images before it skip; an image all of whose
\* platforms are skipped is not built.
C28_OwnSkipPlatformsOnly ==
    Built =>
        \A i \in 1..Len(build.images) :
            /\ \A k \in BuildsOf(i) : build.commands[k].platforms = OwnPlatforms(i)
            /\ (build.platforms # {} /\ OwnPlatforms(i) = {}) => BuildsOf(i) = {}
            /\ (build.args.force_build
                   /\ (build.platforms = {} \/ OwnPlatforms(i) # {}))
                   => BuildsOf(i) # {}

----------------------------------------------------------------------------
(* C21 *)

\* main --list-images ran to its end
ListRunDone == run.pc = "done" /\ run.args.list_images /\ Returned(run.result)

\* the images of chart k of chartpress.yaml, as repository:tag
ImagesOfChart(k) ==
    LET mods == build_images(EmptyCaches, run.charts[k].imagePrefix,
                             run.charts[k].images, CommonImageTag(run.args),
                             FALSE, run.base_version).val
    IN  {ImageString(mods[p]) : p \in DOMAIN mods}

Printed == {run.stdout[i] : i \in 1..Len(run.stdout)}

NothingChanged ==
    /\ FilesUntouched
    /\ run.issued = <<>>
    /\ PubIdle

\* a run with --list-images changes nothing and prints the images of the
\* first chart, each once
ListsFirstChartOnce ==
    run.args.list_images =>
        /\ NothingChanged
        /\ ListRunDone =>
              /\ Printed = ImagesOfChart(1)
              /\ Len(run.stdout) = Cardinality(Printed)

\* C21: a run with --list-images writes neither Chart.yaml nor values.yaml,
\* issues no docker build, docker push or publish command, and prints each
\* distinct repository:tag of the images of chartpress.yaml exactly once.
C21_ListsEveryImageOnce ==
    run.args.list_images =>
        /\ NothingChanged
        /\ ListRunDone =>
              /\ Printed = UNION {ImagesOfChart(k) : k \in 1..Len(run.charts)}
              /\ Len(run.stdout) = Cardinality(Printed)

\* a run without --list-images builds the image
ImageBuilt ==
    /\ run.pc = "done" /\ ~run.args.list_images
    /\ Len(run.issued) > 0
    /\ run.issued[1].cmd = "docker build"

====
